---------------------------- MODULE Spec2Model ----------------------------
(***************************************************************************)
(* A model of the country-scoped job ingestion pipeline of JobIntel:       *)
(*   services/jsearchService.ts    isLocationInCountry, parseJobData,      *)
(*                                 makeRequestWithRetry, searchJobs,       *)
(*                                 generateFallbackJobs                    *)
(*   controllers/adminController.ts runCrawlers, saveJobsToDatabase        *)
(*                                                                         *)
(* JavaScript strings are sequences of one-character strings, so that      *)
(* includes / endsWith / split / toLowerCase are computed and not assumed. *)
(* A character outside ASCII is written as a two-letter token ("n~").      *)
(***************************************************************************)
EXTENDS Integers, Sequences, FiniteSets, TLC

-----------------------------------------------------------------------------
(* JavaScript values and string primitives                                  *)

\* the value of a field that is absent from an object
Undefined == <<"#undefined">>

\* the values that are not strings carry a tag as their first element:
\* booleans, and numbers (the tag followed by the decimal digits)
JsTrue == <<"#true">>

JsFalse == <<"#false">>

ValueTags == {"#undefined", "#true", "#false", "#num", "#date"}

DigitChars == <<"0","1","2","3","4","5","6","7","8","9">>

\* the decimal text of a natural number, as a template literal renders it
RECURSIVE NatText(_)
NatText(n) ==
    IF n < 10 THEN <<DigitChars[n + 1]>> ELSE NatText(n \div 10) \o <<DigitChars[(n % 10) + 1]>>

\* the number n as a value
Num(n) == <<"#num">> \o NatText(n)

IsString(v) == v = <<>> \/ v[1] \notin ValueTags

\* JavaScript truthiness
Truthy(v) == v \notin {Undefined, <<>>, JsFalse, <<"#num", "0">>}

\* a || b
Or(a, b) == IF Truthy(a) THEN a ELSE b

\* String(v), as join() and template literals render a value
AsText(v) == IF v # <<>> /\ v[1] = "#num" THEN Tail(v) ELSE v

UpperLetters ==
    <<"A","B","C","D","E","F","G","H","I","J","K","L","M",
      "N","O","P","Q","R","S","T","U","V","W","X","Y","Z">>

LowerLetters ==
    <<"a","b","c","d","e","f","g","h","i","j","k","l","m",
      "n","o","p","q","r","s","t","u","v","w","x","y","z">>

LetterIndex(letters, c) ==
    IF \E i \in 1..Len(letters) : letters[i] = c
    THEN CHOOSE i \in 1..Len(letters) : letters[i] = c
    ELSE 0

LowerChar(c) ==
    LET i == LetterIndex(UpperLetters, c) IN IF i = 0 THEN c ELSE LowerLetters[i]

UpperChar(c) ==
    LET i == LetterIndex(LowerLetters, c) IN IF i = 0 THEN c ELSE UpperLetters[i]

\* String.prototype.toLowerCase / toUpperCase
ToLowerCase(s) == [i \in 1..Len(s) |-> LowerChar(s[i])]

ToUpperCase(s) == [i \in 1..Len(s) |-> UpperChar(s[i])]

\* the characters \s matches and trim() removes
WhiteSpace == {" ", "\t", "\n", "\r"}

\* String.prototype.includes
Includes(s, t) ==
    \E i \in 0..(Len(s) - Len(t)) : SubSeq(s, i + 1, i + Len(t)) = t

\* String.prototype.endsWith / startsWith
EndsWith(s, t) ==
    Len(t) <= Len(s) /\ SubSeq(s, Len(s) - Len(t) + 1, Len(s)) = t

StartsWith(s, t) ==
    Len(t) <= Len(s) /\ SubSeq(s, 1, Len(t)) = t

\* String.prototype.trim
Trim(s) ==
    LET keep == {i \in 1..Len(s) : s[i] \notin WhiteSpace}
    IN  IF keep = {} THEN <<>>
        ELSE SubSeq(s, CHOOSE i \in keep : \A j \in keep : i <= j,
                       CHOOSE i \in keep : \A j \in keep : j <= i)

\* Array.prototype.filter(Boolean)
RECURSIVE FilterTruthy(_)
FilterTruthy(parts) ==
    IF parts = <<>> THEN <<>>
    ELSE IF Truthy(Head(parts)) THEN <<Head(parts)>> \o FilterTruthy(Tail(parts))
    ELSE FilterTruthy(Tail(parts))

\* Array.prototype.join on an array of strings
RECURSIVE Join(_, _)
Join(parts, sep) ==
    IF parts = <<>> THEN <<>>
    ELSE IF Len(parts) = 1 THEN AsText(parts[1])
    ELSE AsText(parts[1]) \o sep \o Join(Tail(parts), sep)

\* String.prototype.split(',') : the pieces between the commas, in order
RECURSIVE SplitComma(_)
SplitComma(s) ==
    IF \A i \in 1..Len(s) : s[i] # ","
    THEN <<s>>
    ELSE LET k == CHOOSE i \in 1..Len(s) :
                     s[i] = "," /\ \A j \in 1..(i - 1) : s[j] # ","
         IN  <<SubSeq(s, 1, k - 1)>> \o SplitComma(SubSeq(s, k + 1, Len(s)))

\* obj.<name> of a returned job: undefined when the job has no such property
Prop(job, name) == IF name \in DOMAIN job THEN job[name] ELSE Undefined

\* a table lookup  TABLE[key] || []
Lookup(tbl, key) == IF key \in DOMAIN tbl THEN tbl[key] ELSE <<>>

-----------------------------------------------------------------------------
(* Location classifier: the country tables                                  *)

COUNTRY_LOCATIONS ==
    (<<"i","n">> :>
      <<
        <<"b","a","n","g","a","l","o","r","e">>, <<"b","e","n","g","a","l","u","r","u">>,
        <<"m","u","m","b","a","i">>, <<"d","e","l","h","i">>, <<"g","u","r","g","a","o","n">>,
        <<"g","u","r","u","g","r","a","m">>, <<"p","u","n","e">>, <<"h","y","d","e","r","a","b","a","d">>,
        <<"k","o","l","k","a","t","a">>, <<"c","h","e","n","n","a","i">>, <<"j","a","i","p","u","r">>,
        <<"l","u","c","k","n","o","w">>, <<"a","h","m","e","d","a","b","a","d">>,
        <<"c","h","a","n","d","i","g","a","r","h">>, <<"i","n","d","o","r","e">>,
        <<"b","h","o","p","a","l">>, <<"v","i","s","a","k","h","a","p","a","t","n","a","m">>,
        <<"k","o","c","h","i">>, <<"v","a","d","o","d","a","r","a">>, <<"s","u","r","a","t">>,
        <<"n","a","g","p","u","r">>, <<"c","o","i","m","b","a","t","o","r","e">>,
        <<"g","h","a","z","i","a","b","a","d">>, <<"l","u","d","h","i","a","n","a">>,
        <<"n","o","i","d","a">>, <<"f","a","r","i","d","a","b","a","d">>,
        <<"t","r","i","v","a","n","d","r","u","m">>,
        <<"t","h","i","r","u","v","a","n","a","n","t","h","a","p","u","r","a","m">>,
        <<"k","o","t","t","a","y","a","m">>, <<"t","h","r","i","s","s","u","r">>,
        <<"e","r","n","a","k","u","l","a","m">>, <<"k","o","z","h","i","k","o","d","e">>,
        <<"k","a","n","n","u","r">>, <<"p","a","l","a","k","k","a","d">>,
        <<"m","a","l","a","p","p","u","r","a","m">>,
        <<"p","a","t","h","a","n","a","m","t","h","i","t","t","a">>
      >>)
    @@ (<<"u","s">> :>
      <<
        <<"n","e","w"," ","y","o","r","k">>, <<"l","o","s"," ","a","n","g","e","l","e","s">>,
        <<"c","h","i","c","a","g","o">>, <<"h","o","u","s","t","o","n">>, <<"p","h","o","e","n","i","x">>,
        <<"p","h","i","l","a","d","e","l","p","h","i","a">>, <<"s","a","n"," ","a","n","t","o","n","i","o">>,
        <<"s","a","n"," ","d","i","e","g","o">>, <<"d","a","l","l","a","s">>,
        <<"s","a","n"," ","j","o","s","e">>, <<"a","u","s","t","i","n">>,
        <<"j","a","c","k","s","o","n","v","i","l","l","e">>, <<"f","o","r","t"," ","w","o","r","t","h">>,
        <<"c","o","l","u","m","b","u","s">>, <<"i","n","d","i","a","n","a","p","o","l","i","s">>,
        <<"c","h","a","r","l","o","t","t","e">>, <<"s","a","n"," ","f","r","a","n","c","i","s","c","o">>,
        <<"s","e","a","t","t","l","e">>, <<"d","e","n","v","e","r">>, <<"b","o","s","t","o","n">>,
        <<"e","l"," ","p","a","s","o">>, <<"d","e","t","r","o","i","t">>,
        <<"n","a","s","h","v","i","l","l","e">>, <<"p","o","r","t","l","a","n","d">>,
        <<"m","e","m","p","h","i","s">>, <<"o","k","l","a","h","o","m","a"," ","c","i","t","y">>,
        <<"l","a","s"," ","v","e","g","a","s">>, <<"l","o","u","i","s","v","i","l","l","e">>,
        <<"b","a","l","t","i","m","o","r","e">>, <<"m","i","l","w","a","u","k","e","e">>,
        <<"a","l","b","u","q","u","e","r","q","u","e">>, <<"t","u","c","s","o","n">>,
        <<"f","r","e","s","n","o">>, <<"m","e","s","a">>, <<"s","a","c","r","a","m","e","n","t","o">>,
        <<"a","t","l","a","n","t","a">>, <<"k","a","n","s","a","s"," ","c","i","t","y">>,
        <<"c","o","l","o","r","a","d","o"," ","s","p","r","i","n","g","s">>, <<"m","i","a","m","i">>,
        <<"r","a","l","e","i","g","h">>, <<"o","m","a","h","a">>,
        <<"l","o","n","g"," ","b","e","a","c","h">>,
        <<"v","i","r","g","i","n","i","a"," ","b","e","a","c","h">>, <<"o","a","k","l","a","n","d">>,
        <<"m","i","n","n","e","a","p","o","l","i","s">>, <<"t","u","l","s","a">>,
        <<"a","r","l","i","n","g","t","o","n">>, <<"t","a","m","p","a">>,
        <<"n","e","w"," ","o","r","l","e","a","n","s">>
      >>)
    @@ (<<"u","k">> :>
      <<
        <<"l","o","n","d","o","n">>, <<"b","i","r","m","i","n","g","h","a","m">>,
        <<"m","a","n","c","h","e","s","t","e","r">>, <<"l","e","e","d","s">>,
        <<"g","l","a","s","g","o","w">>, <<"n","e","w","c","a","s","t","l","e">>,
        <<"s","h","e","f","f","i","e","l","d">>, <<"l","i","v","e","r","p","o","o","l">>,
        <<"b","r","i","s","t","o","l">>, <<"n","o","t","t","i","n","g","h","a","m">>,
        <<"l","e","i","c","e","s","t","e","r">>, <<"b","r","i","g","h","t","o","n">>,
        <<"p","l","y","m","o","u","t","h">>, <<"s","o","u","t","h","a","m","p","t","o","n">>,
        <<"r","e","a","d","i","n","g">>, <<"d","e","r","b","y">>, <<"d","u","n","d","e","e">>,
        <<"c","a","r","d","i","f","f">>, <<"e","d","i","n","b","u","r","g","h">>,
        <<"b","e","l","f","a","s","t">>, <<"o","x","f","o","r","d">>,
        <<"c","a","m","b","r","i","d","g","e">>, <<"y","o","r","k">>, <<"b","a","t","h">>,
        <<"n","o","r","w","i","c","h">>, <<"p","o","r","t","s","m","o","u","t","h">>
      >>)
    @@ (<<"c","a">> :>
      <<
        <<"t","o","r","o","n","t","o">>, <<"m","o","n","t","r","e","a","l">>,
        <<"v","a","n","c","o","u","v","e","r">>, <<"c","a","l","g","a","r","y">>,
        <<"e","d","m","o","n","t","o","n">>, <<"o","t","t","a","w","a">>,
        <<"w","i","n","n","i","p","e","g">>, <<"q","u","e","b","e","c"," ","c","i","t","y">>,
        <<"h","a","m","i","l","t","o","n">>, <<"k","i","t","c","h","e","n","e","r">>,
        <<"l","o","n","d","o","n">>, <<"h","a","l","i","f","a","x">>, <<"v","i","c","t","o","r","i","a">>,
        <<"s","a","s","k","a","t","o","o","n">>, <<"r","e","g","i","n","a">>,
        <<"s","h","e","r","b","r","o","o","k","e">>, <<"k","e","l","o","w","n","a">>,
        <<"a","b","b","o","t","s","f","o","r","d">>, <<"s","u","d","b","u","r","y">>,
        <<"k","i","n","g","s","t","o","n">>, <<"s","a","u","l","t"," ","s","t","e"," ","m","a","r","i","e">>,
        <<"t","h","u","n","d","e","r"," ","b","a","y">>, <<"n","o","r","t","h"," ","b","a","y">>
      >>)
    @@ (<<"a","u">> :>
      <<
        <<"s","y","d","n","e","y">>, <<"m","e","l","b","o","u","r","n","e">>,
        <<"b","r","i","s","b","a","n","e">>, <<"p","e","r","t","h">>, <<"a","d","e","l","a","i","d","e">>,
        <<"g","o","l","d"," ","c","o","a","s","t">>, <<"c","a","n","b","e","r","r","a">>,
        <<"n","e","w","c","a","s","t","l","e">>, <<"w","o","l","l","o","n","g","o","n","g">>,
        <<"l","o","g","a","n">>, <<"g","e","e","l","o","n","g">>, <<"h","o","b","a","r","t">>,
        <<"t","o","w","n","s","v","i","l","l","e">>, <<"c","a","i","r","n","s">>,
        <<"d","a","r","w","i","n">>, <<"t","o","o","w","o","o","m","b","a">>,
        <<"b","a","l","l","a","r","a","t">>, <<"b","e","n","d","i","g","o">>
      >>)
    @@ (<<"d","e">> :>
      <<
        <<"b","e","r","l","i","n">>, <<"h","a","m","b","u","r","g">>, <<"m","u","n","i","c","h">>,
        <<"c","o","l","o","g","n","e">>, <<"f","r","a","n","k","f","u","r","t">>,
        <<"s","t","u","t","t","g","a","r","t">>, <<"d","u:","s","s","e","l","d","o","r","f">>,
        <<"d","o","r","t","m","u","n","d">>, <<"e","s","s","e","n">>, <<"l","e","i","p","z","i","g">>,
        <<"b","r","e","m","e","n">>, <<"d","r","e","s","d","e","n">>, <<"h","a","n","o","v","e","r">>,
        <<"n","u","r","e","m","b","e","r","g">>, <<"d","u","i","s","b","u","r","g">>,
        <<"b","o","c","h","u","m">>, <<"w","u","p","p","e","r","t","a","l">>,
        <<"b","i","e","l","e","f","e","l","d">>
      >>)
    @@ (<<"f","r">> :>
      <<
        <<"p","a","r","i","s">>, <<"m","a","r","s","e","i","l","l","e">>, <<"l","y","o","n">>,
        <<"t","o","u","l","o","u","s","e">>, <<"n","i","c","e">>, <<"n","a","n","t","e","s">>,
        <<"s","t","r","a","s","b","o","u","r","g">>, <<"m","o","n","t","p","e","l","l","i","e","r">>,
        <<"b","o","r","d","e","a","u","x">>, <<"l","i","l","l","e">>, <<"r","e","n","n","e","s">>,
        <<"r","e","i","m","s">>, <<"l","e"," ","h","a","v","r","e">>,
        <<"s","a","i","n","t","-","e","t","i","e","n","n","e">>, <<"t","o","u","l","o","n">>,
        <<"g","r","e","n","o","b","l","e">>, <<"d","i","j","o","n">>, <<"a","n","g","e","r","s">>,
        <<"n","i^","m","e","s">>, <<"v","i","l","l","e","u","r","b","a","n","n","e">>
      >>)
    @@ (<<"n","l">> :>
      <<
        <<"a","m","s","t","e","r","d","a","m">>, <<"r","o","t","t","e","r","d","a","m">>,
        <<"t","h","e"," ","h","a","g","u","e">>, <<"u","t","r","e","c","h","t">>,
        <<"e","i","n","d","h","o","v","e","n">>, <<"t","i","l","b","u","r","g">>,
        <<"g","r","o","n","i","n","g","e","n">>, <<"a","l","m","e","r","e">>, <<"b","r","e","d","a">>,
        <<"n","i","j","m","e","g","e","n">>, <<"e","n","s","c","h","e","d","e">>,
        <<"h","a","a","r","l","e","m">>, <<"a","r","n","h","e","m">>,
        <<"a","m","e","r","s","f","o","o","r","t">>, <<"z","w","o","l","l","e">>,
        <<"z","o","e","t","e","r","m","e","e","r">>, <<"d","e","n"," ","h","a","a","g">>,
        <<"a","p","e","l","d","o","o","r","n">>, <<"h","e","e","r","l","e","n">>
      >>)
    @@ (<<"s","g">> :>
      <<
        <<"s","i","n","g","a","p","o","r","e">>, <<"j","u","r","o","n","g">>,
        <<"t","a","m","p","i","n","e","s">>, <<"y","i","s","h","u","n">>, <<"b","e","d","o","k">>,
        <<"w","o","o","d","l","a","n","d","s">>, <<"a","n","g"," ","m","o"," ","k","i","o">>,
        <<"h","o","u","g","a","n","g">>, <<"c","h","o","a"," ","c","h","u"," ","k","a","n","g">>,
        <<"s","e","n","g","k","a","n","g">>, <<"p","u","n","g","g","o","l">>,
        <<"b","u","k","i","t"," ","b","a","t","o","k">>,
        <<"b","u","k","i","t"," ","p","a","n","j","a","n","g">>
      >>)
    @@ (<<"e","s">> :>
      <<
        <<"m","a","d","r","i","d">>, <<"b","a","r","c","e","l","o","n","a">>,
        <<"v","a","l","e","n","c","i","a">>, <<"s","e","v","i","l","l","e">>,
        <<"z","a","r","a","g","o","z","a">>, <<"m","a'","l","a","g","a">>, <<"m","u","r","c","i","a">>,
        <<"p","a","l","m","a">>, <<"l","a","s"," ","p","a","l","m","a","s">>, <<"b","i","l","b","a","o">>,
        <<"a","l","i","c","a","n","t","e">>, <<"c","o'","r","d","o","b","a">>,
        <<"v","a","l","l","a","d","o","l","i","d">>, <<"v","i","g","o">>, <<"g","i","j","o'","n">>,
        <<"h","o","s","p","i","t","a","l","e","t"," ","d","e"," ","l","l","o","b","r","e","g","a","t">>,
        <<"l","a"," ","c","o","r","u","n~","a">>, <<"g","r","a","n","a","d","a">>,
        <<"v","i","t","o","r","i","a","-","g","a","s","t","e","i","z">>
      >>)

COUNTRY_STATE_CODES ==
    (<<"i","n">> :>
      <<
        <<"i","n">>, <<"i","n","-","k","a">>, <<"i","n","-","t","n">>, <<"i","n","-","m","h">>,
        <<"i","n","-","d","l">>, <<"i","n","-","h","r">>, <<"i","n","-","u","p">>, <<"i","n","-","a","p">>,
        <<"i","n","-","j","k">>, <<"i","n","-","h","p">>, <<"i","n","-","p","b">>, <<"i","n","-","g","j">>
      >>)
    @@ (<<"u","s">> :>
      <<
        <<"a","l">>, <<"a","k">>, <<"a","z">>, <<"a","r">>, <<"c","a">>, <<"c","o">>, <<"c","t">>,
        <<"d","e">>, <<"f","l">>, <<"g","a">>, <<"h","i">>, <<"i","d">>, <<"i","l">>, <<"i","n">>,
        <<"i","a">>, <<"k","s">>, <<"k","y">>, <<"l","a">>, <<"m","e">>, <<"m","d">>, <<"m","a">>,
        <<"m","i">>, <<"m","n">>, <<"m","s">>, <<"m","o">>, <<"m","t">>, <<"n","e">>, <<"n","v">>,
        <<"n","h">>, <<"n","j">>, <<"n","m">>, <<"n","y">>, <<"n","c">>, <<"n","d">>, <<"o","h">>,
        <<"o","k">>, <<"o","r">>, <<"p","a">>, <<"r","i">>, <<"s","c">>, <<"s","d">>, <<"t","n">>,
        <<"t","x">>, <<"u","t">>, <<"v","t">>, <<"v","a">>, <<"w","a">>, <<"w","v">>, <<"w","i">>, <<"w","y">>
      >>)
    @@ (<<"u","k">> :>
      <<
        <<"e","n","g","l","a","n","d">>, <<"s","c","o","t","l","a","n","d">>, <<"w","a","l","e","s">>,
        <<"n","o","r","t","h","e","r","n"," ","i","r","e","l","a","n","d">>
      >>)
    @@ (<<"c","a">> :>
      <<
        <<"o","n">>, <<"q","c">>, <<"b","c">>, <<"a","b">>, <<"m","b">>, <<"s","k">>, <<"n","s">>,
        <<"n","b">>, <<"n","l">>, <<"p","e">>, <<"n","t">>, <<"y","t">>, <<"n","u">>
      >>)
    @@ (<<"a","u">> :>
      <<
        <<"n","s","w">>, <<"v","i","c">>, <<"q","l","d">>, <<"w","a">>, <<"s","a">>, <<"t","a","s">>,
        <<"a","c","t">>, <<"n","t">>
      >>)
    @@ (<<"d","e">> :>
      <<
        <<"b","w">>, <<"b","y">>, <<"b","e">>, <<"b","b">>, <<"h","b">>, <<"h","h">>, <<"h","e">>,
        <<"m","v">>, <<"n","i">>, <<"n","w">>, <<"r","p">>, <<"s","l">>, <<"s","n">>, <<"s","t">>,
        <<"s","h">>, <<"t","h">>
      >>)
    @@ (<<"f","r">> :>
      <<
        <<"a","r","a">>, <<"b","f","c">>, <<"b","r","e">>, <<"c","v","l">>, <<"c","o","r">>, <<"g","e","s">>,
        <<"h","d","f">>, <<"i","d","f">>, <<"n","o","r">>, <<"n","a","u">>, <<"o","c","c">>, <<"p","a","c">>,
        <<"p","d","l">>
      >>)
    @@ (<<"n","l">> :>
      <<
        <<"d","r">>, <<"f","l">>, <<"f","r">>, <<"g","e">>, <<"g","r">>, <<"l","i">>, <<"n","b">>,
        <<"n","h">>, <<"o","v">>, <<"u","t">>, <<"z","e">>, <<"z","h">>
      >>)
    @@ (<<"s","g">> :>
      <<
        <<"c","e","n","t","r","a","l">>, <<"n","o","r","t","h">>,
        <<"n","o","r","t","h","-","e","a","s","t">>, <<"e","a","s","t">>, <<"w","e","s","t">>
      >>)
    @@ (<<"e","s">> :>
      <<
        <<"a","n">>, <<"a","r">>, <<"a","s">>, <<"i","b">>, <<"c","n">>, <<"c","b">>, <<"c","l">>,
        <<"c","m">>, <<"c","t">>, <<"c","e">>, <<"g","a">>, <<"r","i">>, <<"m","d">>, <<"m","c">>,
        <<"n","c">>, <<"p","v">>, <<"v","c">>
      >>)

EXCLUDE_US_STATES ==
    <<
      <<"a","l","a","b","a","m","a">>, <<"a","l","a","s","k","a">>, <<"a","r","i","z","o","n","a">>,
      <<"a","r","k","a","n","s","a","s">>, <<"c","a","l","i","f","o","r","n","i","a">>,
      <<"c","o","l","o","r","a","d","o">>, <<"c","o","n","n","e","c","t","i","c","u","t">>,
      <<"d","e","l","a","w","a","r","e">>, <<"f","l","o","r","i","d","a">>, <<"g","e","o","r","g","i","a">>,
      <<"h","a","w","a","i","i">>, <<"i","d","a","h","o">>, <<"i","l","l","i","n","o","i","s">>,
      <<"i","n","d","i","a","n","a">>, <<"i","o","w","a">>, <<"k","a","n","s","a","s">>,
      <<"k","e","n","t","u","c","k","y">>, <<"l","o","u","i","s","i","a","n","a">>, <<"m","a","i","n","e">>,
      <<"m","a","r","y","l","a","n","d">>, <<"m","a","s","s","a","c","h","u","s","e","t","t","s">>,
      <<"m","i","c","h","i","g","a","n">>, <<"m","i","n","n","e","s","o","t","a">>,
      <<"m","i","s","s","i","s","s","i","p","p","i">>, <<"m","i","s","s","o","u","r","i">>,
      <<"m","o","n","t","a","n","a">>, <<"n","e","b","r","a","s","k","a">>, <<"n","e","v","a","d","a">>,
      <<"h","a","m","p","s","h","i","r","e">>, <<"j","e","r","s","e","y">>, <<"m","e","x","i","c","o">>,
      <<"y","o","r","k">>, <<"c","a","r","o","l","i","n","a">>, <<"d","a","k","o","t","a">>,
      <<"o","h","i","o">>, <<"o","k","l","a","h","o","m","a">>, <<"o","r","e","g","o","n">>,
      <<"p","e","n","n","s","y","l","v","a","n","i","a">>, <<"r","h","o","d","e">>, <<"s","o","u","t","h">>,
      <<"t","e","n","n","e","s","s","e","e">>, <<"t","e","x","a","s">>, <<"u","t","a","h">>,
      <<"v","e","r","m","o","n","t">>, <<"v","i","r","g","i","n","i","a">>,
      <<"w","a","s","h","i","n","g","t","o","n">>, <<"w","i","s","c","o","n","s","i","n">>,
      <<"w","y","o","m","i","n","g">>
    >>

countryNames ==
    (<<"i","n">> :>
      <<
        <<"i","n","d","i","a">>
      >>)
    @@ (<<"u","s">> :>
      <<
        <<"u","n","i","t","e","d"," ","s","t","a","t","e","s">>, <<"u","s","a">>,
        <<"a","m","e","r","i","c","a">>
      >>)
    @@ (<<"u","k">> :>
      <<
        <<"u","n","i","t","e","d"," ","k","i","n","g","d","o","m">>, <<"u","k">>,
        <<"b","r","i","t","a","i","n">>, <<"e","n","g","l","a","n","d">>,
        <<"s","c","o","t","l","a","n","d">>, <<"w","a","l","e","s">>
      >>)
    @@ (<<"c","a">> :>
      <<
        <<"c","a","n","a","d","a">>
      >>)
    @@ (<<"a","u">> :>
      <<
        <<"a","u","s","t","r","a","l","i","a">>
      >>)
    @@ (<<"d","e">> :>
      <<
        <<"g","e","r","m","a","n","y">>, <<"d","e","u","t","s","c","h","l","a","n","d">>
      >>)
    @@ (<<"f","r">> :>
      <<
        <<"f","r","a","n","c","e">>
      >>)
    @@ (<<"n","l">> :>
      <<
        <<"n","e","t","h","e","r","l","a","n","d","s">>, <<"h","o","l","l","a","n","d">>
      >>)
    @@ (<<"s","g">> :>
      <<
        <<"s","i","n","g","a","p","o","r","e">>
      >>)
    @@ (<<"e","s">> :>
      <<
        <<"s","p","a","i","n">>, <<"e","s","p","a","n~","a">>
      >>)

-----------------------------------------------------------------------------
(* Location classifier: isLocationInCountry                                 *)

\* the explicit country compared by its first letters only
ExplicitCountryMatchesByPrefix(targetCountryIso, countryLower) ==
    StartsWith(countryLower, ToLowerCase(targetCountryIso))

\* the explicit-country comparison of the strict check
ExplicitCountryMatches(targetCountryIso, countryLower) ==
    LET is(s) == countryLower = s
        target(s) == targetCountryIso = s
    IN  \/ countryLower = ToLowerCase(targetCountryIso)
        \/ countryLower = targetCountryIso
        \/ target(<<"i","n">>) /\
             (is(<<"i","n","d","i","a">>) \/ StartsWith(countryLower, <<"i","n","-">>)
                \/ is(<<"i","n",",">>))
        \/ target(<<"u","s">>) /\
             (is(<<"u","n","i","t","e","d"," ","s","t","a","t","e","s">>) \/ is(<<"u","s","a">>)
                \/ is(<<"u","s",",">>) \/ is(<<"u",".","s",".">>))
        \/ target(<<"u","k">>) /\
             (is(<<"u","n","i","t","e","d"," ","k","i","n","g","d","o","m">>) \/ is(<<"u","k",",">>)
                \/ is(<<"g","r","e","a","t"," ","b","r","i","t","a","i","n">>))
        \/ target(<<"c","a">>) /\ (is(<<"c","a","n","a","d","a">>) \/ is(<<"c","a",",">>))
        \/ target(<<"a","u">>) /\
             (is(<<"a","u","s","t","r","a","l","i","a">>) \/ is(<<"a","u",",">>))
        \/ target(<<"d","e">>) /\
             (is(<<"g","e","r","m","a","n","y">>) \/ is(<<"d","e","u","t","s","c","h","l","a","n","d">>)
                \/ is(<<"d","e",",">>))
        \/ target(<<"f","r">>) /\ (is(<<"f","r","a","n","c","e">>) \/ is(<<"f","r",",">>))
        \/ target(<<"n","l">>) /\
             (is(<<"n","e","t","h","e","r","l","a","n","d","s">>) \/ is(<<"h","o","l","l","a","n","d">>)
                \/ is(<<"n","l",",">>))
        \/ target(<<"s","g">>) /\
             (is(<<"s","i","n","g","a","p","o","r","e">>) \/ is(<<"s","g",",">>))
        \/ target(<<"e","s">>) /\
             (is(<<"s","p","a","i","n">>) \/ is(<<"e","s","p","a","n~","a">>) \/ is(<<"e","s",",">>))

\* the US-state exclusion applied when the target is not 'us'
MentionsUsState(locLower) ==
    \E k \in 1..Len(EXCLUDE_US_STATES) :
        LET usState == EXCLUDE_US_STATES[k]
        IN  \/ Includes(locLower, <<",", " ">> \o usState)
            \/ Includes(locLower, <<",", " ">> \o ToUpperCase(usState))
            \/ EndsWith(locLower, <<",", " ">> \o usState)

\* new RegExp(`(^|\s|,)${cityName}(\s|,|$)`, 'i').test(text); no city name
\* of the tables holds a character that is special in a regular expression
CityPatternTest(cityName, text) ==
    LET t == ToLowerCase(text)
        c == ToLowerCase(cityName)
        sep == WhiteSpace \cup {","}
    IN  \E i \in 0..(Len(t) - Len(c)) :
            /\ SubSeq(t, i + 1, i + Len(c)) = c
            /\ (i = 0 \/ t[i] \in sep)
            /\ (i + Len(c) = Len(t) \/ t[i + Len(c) + 1] \in sep)

\* country.toLowerCase() is not a function when the country is not a string
isLocationInCountryThrows(targetCountryIso, location, city, state, country) ==
    /\ Truthy(location) \/ Truthy(city) \/ Truthy(state) \/ Truthy(country)
    /\ \/ Truthy(location) /\ ~IsString(location)
       \/ Truthy(country) /\ ~IsString(country)

isLocationInCountry(targetCountryIso, location, city, state, country) ==
    IF ~Truthy(location) /\ ~Truthy(city) /\ ~Truthy(state) /\ ~Truthy(country)
    THEN FALSE
    ELSE
    LET locLower == IF Truthy(location) THEN ToLowerCase(location) ELSE <<>>
        fullLocation == ToLowerCase(Join(FilterTruthy(<<city, state, country>>), <<" ">>))
        stateCodes == Lookup(COUNTRY_STATE_CODES, targetCountryIso)
        cities == Lookup(COUNTRY_LOCATIONS, targetCountryIso)
        countryKeywords == Lookup(countryNames, targetCountryIso)
    IN  IF Truthy(country)
        THEN ExplicitCountryMatches(targetCountryIso, Trim(ToLowerCase(country)))
        ELSE IF targetCountryIso # <<"u","s">> /\ MentionsUsState(locLower)
        THEN FALSE
        ELSE IF \E k \in 1..Len(stateCodes) :
                    Includes(locLower, stateCodes[k]) \/ Includes(fullLocation, stateCodes[k])
        THEN TRUE
        ELSE IF \E k \in 1..Len(cities) :
                    CityPatternTest(cities[k], locLower) \/ CityPatternTest(cities[k], fullLocation)
        THEN TRUE
        ELSE \E k \in 1..Len(countryKeywords) :
                LET keyword == countryKeywords[k]
                IN  \/ Includes(locLower, <<",", " ">> \o keyword)
                    \/ EndsWith(locLower, <<",", " ">> \o keyword)
                    \/ locLower = keyword
                    \/ fullLocation = keyword

-----------------------------------------------------------------------------
(* Response normalizer: parseJobData                                        *)

\* null: an entry of the API's job array that is null, and the value
\* parseJobData returns for an input it cannot parse
Null == [isNull |-> TRUE]

\* jobData.<name>: undefined when the raw object has no such field
Field(jobData, name) == IF name \in DOMAIN jobData THEN jobData[name] ELSE Undefined

\* jobData[field] && typeof jobData[field] === 'string' && jobData[field].trim()
IsUsableCompanyValue(v) == Truthy(v) /\ IsString(v) /\ Trim(v) # <<>>

Least(S) == CHOOSE x \in S : \A y \in S : x <= y

possibleCompanyFields ==
    <<"employer_name", "company", "employer", "job_publisher", "employer_name_simple",
      "publisher_name", "hiring_company", "job_company", "business_name",
      "employer_company", "company_name">>

FirstCompanyField(jobData, hits) ==
    IF hits = {} THEN <<>> ELSE Trim(Field(jobData, possibleCompanyFields[Least(hits)]))

\* the positions in possibleCompanyFields of the fields that hold a
\* non-blank string
UsableCompanyFields(jobData) ==
    {k \in 1..Len(possibleCompanyFields) :
        IsUsableCompanyValue(Field(jobData, possibleCompanyFields[k]))}

\* the first candidate field holding a non-blank string, trimmed ('' if none)
ProbeCompany(jobData) == FirstCompanyField(jobData, UsableCompanyFields(jobData))

IsLetter(c) == LetterIndex(LowerLetters, c) # 0 \/ LetterIndex(UpperLetters, c) # 0

\* invalidCompanyPatterns.some(pattern => pattern.test(companyName))
MatchesInvalidCompanyPattern(name) ==
    LET low == ToLowerCase(name)
    IN  \/ StartsWith(low, <<"t","e","s","t">>)
        \/ StartsWith(low, <<"e","x","a","m","p","l","e">>)
        \/ low = <<"u","n","k","n","o","w","n">>
        \/ StartsWith(low, <<"b","e","b","e">>)
        \/ Len(name) \in 1..2 /\ \A i \in 1..Len(name) : LetterIndex(LowerLetters, name[i]) # 0
        \/ Len(name) >= 50 /\ \A i \in 1..Len(name) : name[i] \notin {"\n", "\r"}
        \/ Len(name) >= 1 /\ \A i \in 1..Len(name) : LetterIndex(DigitChars, name[i]) # 0
        \/ StartsWith(low, <<"h","t","t","p">>)
        \/ low = <<"c","o","n","f","i","d","e","n","t","i","a","l">>
        \/ low = <<"p","r","i","v","a","t","e">>

\* the character class [A-Za-z\s&,\.] of both extraction patterns
NameChar(c) == IsLetter(c) \/ c \in WhiteSpace \/ c \in {"&", ",", "."}

\* the length of the run of white space that starts at position i
RECURSIVE WhiteRun(_, _)
WhiteRun(text, i) ==
    IF i <= Len(text) /\ text[i] \in WhiteSpace THEN 1 + WhiteRun(text, i + 1) ELSE 0

TITLE_KEYWORDS == { <<"a","t">>, <<"f","o","r">>, <<"w","i","t","h">>, <<"@">> }

\* the position of the name's first letter for a match starting at i, or
\* 0: a keyword at i (ignoring case), \s+, and then a letter
TitleNameStart(title, i) ==
    LET hits == {k \in TITLE_KEYWORDS :
                    i + Len(k) - 1 <= Len(title)
                    /\ ToLowerCase(SubSeq(title, i, i + Len(k) - 1)) = k}
    IN  IF hits = {} THEN 0
        ELSE LET e == i + Len(CHOOSE k \in hits : TRUE)
                 w == WhiteRun(title, e)
             IN  IF w >= 1 /\ e + w <= Len(title) /\ IsLetter(title[e + w])
                 THEN e + w ELSE 0

\* the numbers of further characters the lazy group can take from position q
TitleNameLens(title, q) ==
    {m \in 1..(Len(title) - q) :
        /\ \A j \in (q + 1)..(q + m) : NameChar(title[j])
        /\ (q + m = Len(title) \/ title[q + m + 1] \in WhiteSpace)}

TitleMatchFrom(title, q) == SubSeq(title, q, q + Least(TitleNameLens(title, q)))

TitleStarts(title) ==
    {i \in 1..Len(title) : TitleNameStart(title, i) # 0
                            /\ TitleNameLens(title, TitleNameStart(title, i)) # {}}

LeftmostTitleMatch(title, starts) ==
    IF starts = {} THEN Undefined
    ELSE TitleMatchFrom(title, TitleNameStart(title, Least(starts)))

\* title.match(/(?:at|for|with|@)\s+([A-Z][A-Za-z\s&,\.]+?)(?:\s|$)/i)[1],
\* Undefined when the pattern does not match: the leftmost start, the lazy
\* group as short as possible
TitleCompanyMatch(title) == LeftmostTitleMatch(title, TitleStarts(title))

DESCRIPTION_KEYWORDS ==
    { <<"A","t">>, <<"A","b","o","u","t">>, <<"J","o","i","n">>, <<"F","o","r">>,
      <<"W","o","r","k","i","n","g"," ","a","t">>, <<"C","o","m","p","a","n","y",":">>,
      <<"E","m","p","l","o","y","e","r",":">> }

COPULAS == { <<"i","s">>, <<"w","e">>, <<"a","r","e">>, <<"h","a","s">>, <<"o","f","f","e","r","s">> }

\* (?:\,|\.|\s(?:is|we|are|has|offers)) matches at position p
DescriptionEndAt(text, p) ==
    /\ p <= Len(text)
    /\ \/ text[p] \in {",", "."}
       \/ /\ text[p] \in WhiteSpace
          /\ \E c \in COPULAS : p + Len(c) <= Len(text) /\ SubSeq(text, p + 1, p + Len(c)) = c

\* keyword k at position i, one space, and an upper-case letter at the
\* position returned, or 0
DescriptionNameStart(text, i, k) ==
    IF /\ i + Len(k) + 1 <= Len(text)
       /\ SubSeq(text, i, i + Len(k) - 1) = k
       /\ text[i + Len(k)] = " "
       /\ LetterIndex(UpperLetters, text[i + Len(k) + 1]) # 0
    THEN i + Len(k) + 1 ELSE 0

DescriptionNameLens(text, q) ==
    {m \in 1..(Len(text) - q) :
        /\ \A j \in (q + 1)..(q + m) : NameChar(text[j])
        /\ DescriptionEndAt(text, q + m + 1)}

DescriptionViable(text, i) ==
    {k \in DESCRIPTION_KEYWORDS :
        DescriptionNameStart(text, i, k) # 0
        /\ DescriptionNameLens(text, DescriptionNameStart(text, i, k)) # {}}

DescriptionMatchFrom(text, q) == SubSeq(text, q, q + Least(DescriptionNameLens(text, q)))

LeftmostDescriptionMatch(text, starts) ==
    IF starts = {} THEN Undefined
    ELSE DescriptionMatchFrom(text,
             DescriptionNameStart(text, Least(starts),
                                  CHOOSE k \in DescriptionViable(text, Least(starts)) : TRUE))

\* description.match(/(?:At|About|Join|For|Working at|Company:|Employer:)
\*   ([A-Z][A-Za-z\s&,\.]+?)(?:\,|\.|\s(?:is|we|are|has|offers))/)[1]
DescriptionCompanyMatch(description) ==
    LeftmostDescriptionMatch(description,
        {i \in 1..Len(description) : DescriptionViable(description, i) # {}})

\* replace(/^["']|["']$/g, '') on a trimmed name
DropLastQuote(a) ==
    IF Len(a) >= 1 /\ a[Len(a)] \in {"\"", "'"} THEN SubSeq(a, 1, Len(a) - 1) ELSE a

DropQuotes(t) ==
    DropLastQuote(IF Len(t) >= 1 /\ t[1] \in {"\"", "'"} THEN SubSeq(t, 2, Len(t)) ELSE t)

\* companyName.trim().replace(/^["']|["']$/g, '')
StripQuotes(name) == DropQuotes(Trim(name))

\* the parts when the raw location string is split: the last piece is the
\* country, the one before it the state, the rest the city
SplitLocation(parts, city0, state0, country0) ==
    IF Len(parts) >= 2
    THEN [city |-> Or(city0, Join(SubSeq(parts, 1, Len(parts) - 2), <<",", " ">>)),
          state |-> Or(state0, parts[Len(parts) - 1]),
          country |-> Or(country0, parts[Len(parts)])]
    ELSE [city |-> Or(city0, parts[1]), state |-> state0, country |-> country0]

LocationPartsOf(city0, state0, country0, rawLocation) ==
    IF Truthy(rawLocation) /\ ~Truthy(city0) /\ ~Truthy(state0)
    THEN SplitLocation([i \in 1..Len(SplitComma(rawLocation)) |-> Trim(SplitComma(rawLocation)[i])],
                       city0, state0, country0)
    ELSE [city |-> city0, state |-> state0, country |-> country0]

\* the city / state / country of a raw job, after the raw location string
\* has been split when no dedicated city and state are present
ParsedLocationParts(jobData) ==
    LocationPartsOf(Or(Or(Field(jobData, "job_city"), Field(jobData, "city")), <<>>),
                    Or(Or(Field(jobData, "job_state"), Field(jobData, "state")), <<>>),
                    Or(Or(Field(jobData, "job_country"), Field(jobData, "country")), <<>>),
                    Or(Field(jobData, "job_location"), <<>>))

JoinedOrRemote(locationParts) ==
    IF Len(locationParts) > 0 THEN Join(locationParts, <<",", " ">>)
    ELSE <<"R","e","m","o","t","e">>

\* the three parts joined without leaving out the empty ones
DisplayLocationUnfiltered(p) == Join(<<p.city, p.state, p.country>>, <<",", " ">>)

\* the display string built from the non-empty parts, 'Remote' when there is none
DisplayLocation(p) == JoinedOrRemote(FilterTruthy(<<p.city, p.state, p.country>>))

UNKNOWN_COMPANY == <<"U","n","k","n","o","w","n"," ","C","o","m","p","a","n","y">>

\* the probed name when no invalid pattern matches it, else ''
ValidOrEmpty(probed) ==
    IF probed # <<>> /\ ~MatchesInvalidCompanyPattern(probed) THEN probed ELSE <<>>

DirectCompany(jobData) == ValidOrEmpty(ProbeCompany(jobData))

MatchOrUndefined(text, isTitle) ==
    IF ~Truthy(text) THEN Undefined
    ELSE IF isTitle THEN TitleCompanyMatch(text) ELSE DescriptionCompanyMatch(text)

CompanyFromDescription(m) == IF m # Undefined THEN Trim(m) ELSE UNKNOWN_COMPANY

CompanyFromTitle(jobData, m) ==
    IF m # Undefined THEN Trim(m)
    ELSE CompanyFromDescription(MatchOrUndefined(Field(jobData, "job_description"), FALSE))

CompanyFromDirect(jobData, direct) ==
    IF direct # <<>> THEN direct
    ELSE CompanyFromTitle(jobData, MatchOrUndefined(Field(jobData, "job_title"), TRUE))

\* the company name: the probed field when valid, else the name found in the
\* title, else the one found in the description, else 'Unknown Company';
\* surrounding quotes are stripped
ExtractCompany(jobData) == StripQuotes(CompanyFromDirect(jobData, DirectCompany(jobData)))

\* the apply link read from the first link field only
ApplyLinkFirstFieldOnly(jobData) == Or(Field(jobData, "job_apply_link"), <<>>)

\* the apply link: the first truthy of the ordered link fields, else ''
ApplyLink(jobData) ==
    Or(Or(Or(Or(Or(Field(jobData, "job_apply_link"), Field(jobData, "apply_link")),
                Field(jobData, "job_url")), Field(jobData, "google_link")),
          Field(jobData, "link")), <<>>)

API_SOURCE == <<"J","S","e","a","r","c","h"," ","A","P","I">>

FALLBACK_SOURCE == <<"F","a","l","l","b","a","c","k"," ","D","a","t","a">>

EXAMPLE_DOMAIN == <<"e","x","a","m","p","l","e",".","c","o","m">>

NotAString(v) == Truthy(v) /\ ~IsString(v)

\* the title is matched only when it is a string; a truthy title that is
\* not one throws before
TitleGives(title) == Truthy(title) /\ IsString(title) /\ TitleCompanyMatch(title) # Undefined

CompanyThrows(jobData, direct) ==
    /\ direct = <<>>
    /\ \/ NotAString(Field(jobData, "job_title"))
       \/ /\ ~TitleGives(Field(jobData, "job_title"))
          /\ NotAString(Field(jobData, "job_description"))

LocationThrows(city0, state0, rawLocation) ==
    Truthy(rawLocation) /\ ~Truthy(city0) /\ ~Truthy(state0) /\ ~IsString(rawLocation)

\* a TypeError inside parseJobData's try block: a method of String called on
\* a truthy value that is not a string (split on the raw location, match on
\* the title or the description, includes on the apply link)
parseJobDataThrows(jobData) ==
    \/ LocationThrows(Or(Field(jobData, "job_city"), Field(jobData, "city")),
                      Or(Field(jobData, "job_state"), Field(jobData, "state")),
                      Field(jobData, "job_location"))
    \/ CompanyThrows(jobData, DirectCompany(jobData))
    \/ NotAString(ApplyLink(jobData))

RecordOf(jobData, p, location, companyName, applyLink) ==
    [title |-> Or(Or(Field(jobData, "job_title"), Field(jobData, "title")),
                  <<"U","n","t","i","t","l","e","d">>),
     company |-> Or(companyName, UNKNOWN_COMPANY),
     location |-> location,
     city |-> p.city,
     state |-> p.state,
     country |-> p.country,
     description |-> Or(Or(Field(jobData, "job_description"), Field(jobData, "description")), <<>>),
     minSalary |-> Or(Or(Field(jobData, "job_min_salary"), Field(jobData, "min_salary")),
                      Field(jobData, "minSalary")),
     maxSalary |-> Or(Or(Field(jobData, "job_max_salary"), Field(jobData, "max_salary")),
                      Field(jobData, "maxSalary")),
     salaryPeriod |-> Or(Or(Field(jobData, "job_salary_period"), Field(jobData, "salary_period")),
                         <<"Y","E","A","R","L","Y">>),
     jobType |-> Or(Or(Field(jobData, "job_employment_type"), Field(jobData, "jobType")),
                    <<"F","u","l","l","-","t","i","m","e">>),
     postedDate |-> Or(Or(Field(jobData, "job_posted_at_datetime_utc"),
                          Field(jobData, "job_posted_at_timestamp")),
                       Field(jobData, "posted_date")),
     externalLink |-> applyLink,
     jobId |-> Or(Field(jobData, "job_id"), Field(jobData, "id")),
     source |-> IF Truthy(applyLink) /\ ~Includes(applyLink, EXAMPLE_DOMAIN)
                THEN API_SOURCE ELSE FALLBACK_SOURCE,
     isRemote |-> Or(Or(Field(jobData, "job_is_remote"), Field(jobData, "is_remote")),
                     IF Includes(ToLowerCase(location), <<"r","e","m","o","t","e">>)
                     THEN JsTrue ELSE JsFalse),
     rawData |-> jobData]

RecordAt(jobData, p) ==
    RecordOf(jobData, p, DisplayLocation(p), ExtractCompany(jobData), ApplyLink(jobData))

\* the canonical record of a raw job that parses
ParsedRecord(jobData) == RecordAt(jobData, ParsedLocationParts(jobData))

\* parseJobData: null for a falsy input and for an input on which it throws
parseJobData(jobData) ==
    IF jobData = Null \/ parseJobDataThrows(jobData) THEN Null ELSE ParsedRecord(jobData)
-----------------------------------------------------------------------------
(* Synthetic data: generateFallbackJobs                                     *)

\* Math.random() is a stream of samples k / RandRes, 0 <= k < RandRes; the
\* n-th draw of a call whose first sample is `seed` is Sample(seed, n)
RandRes == 120

RandStride == 37

Sample(seed, n) == (seed + n * RandStride) % RandRes

\* Math.floor(Math.random() * range) for the n-th draw
RandomBelow(seed, n, range) == (Sample(seed, n) * range) \div RandRes

FALLBACK_MIN_COUNT == 20

FALLBACK_COUNT_RANGE == 30

FALLBACK_COMPANIES ==
    <<
      <<"G","o","o","g","l","e">>, <<"M","i","c","r","o","s","o","f","t">>, <<"A","p","p","l","e">>,
      <<"A","m","a","z","o","n">>, <<"F","a","c","e","b","o","o","k">>, <<"N","e","t","f","l","i","x">>,
      <<"U","b","e","r">>, <<"A","i","r","b","n","b">>, <<"T","e","s","l","a">>, <<"S","p","a","c","e","X">>,
      <<"M","e","t","a">>, <<"L","i","n","k","e","d","I","n">>, <<"A","d","o","b","e">>,
      <<"S","a","l","e","s","f","o","r","c","e">>, <<"C","i","s","c","o">>, <<"I","n","t","e","l">>,
      <<"O","r","a","c","l","e">>, <<"I","B","M">>, <<"G","i","t","H","u","b">>, <<"S","t","r","i","p","e">>,
      <<"F","i","g","m","a">>, <<"S","l","a","c","k">>, <<"Z","o","o","m">>, <<"N","o","t","i","o","n">>
    >>

FALLBACK_LOCATIONS ==
    <<
      <<"S","a","n"," ","F","r","a","n","c","i","s","c","o",","," ","C","A">>,
      <<"N","e","w"," ","Y","o","r","k",","," ","N","Y">>,
      <<"A","u","s","t","i","n",","," ","T","X">>,
      <<"S","e","a","t","t","l","e",","," ","W","A">>,
      <<"R","e","m","o","t","e">>
    >>

FALLBACK_JOB_TYPES ==
    << <<"F","u","l","l","-","t","i","m","e">>, <<"C","o","n","t","r","a","c","t">>,
       <<"P","a","r","t","-","t","i","m","e">> >>

\* the i-th synthetic job (i from 0); it draws seven samples, after the one
\* sample that fixed the count. `now` is the text of Date.now(), and the
\* posting date is an opaque timestamp text
FallbackJob(query, seed, now, i) ==
    LET d(k) == 1 + 7 * i + k
        company == FALLBACK_COMPANIES[1 + RandomBelow(seed, d(0), Len(FALLBACK_COMPANIES))]
        location == FALLBACK_LOCATIONS[1 + RandomBelow(seed, d(1), Len(FALLBACK_LOCATIONS))]
    IN  [title |-> AsText(query) \o <<" ","-"," ","L","e","v","e","l"," ">>
                     \o NatText(RandomBelow(seed, d(2), 3) + 1),
         company |-> company,
         location |-> location,
         description |-> AsText(query) \o <<" ","p","o","s","i","t","i","o","n"," ","a","t"," ">>
                           \o company
                           \o <<"."," ","W","e"," ","a","r","e"," ","l","o","o","k","i","n","g"," ",
                                "f","o","r"," ","e","x","p","e","r","i","e","n","c","e","d"," ",
                                "p","r","o","f","e","s","s","i","o","n","a","l","s",".",".",".">>,
         minSalary |-> Num(80000 + RandomBelow(seed, d(3), 100000)),
         maxSalary |-> Num(150000 + RandomBelow(seed, d(4), 100000)),
         salaryPeriod |-> <<"Y","E","A","R","L","Y">>,
         jobType |-> FALLBACK_JOB_TYPES[1 + RandomBelow(seed, d(5), Len(FALLBACK_JOB_TYPES))],
         postedDate |-> <<"#date">>,
         externalLink |-> <<"h","t","t","p","s",":","/","/">> \o EXAMPLE_DOMAIN
                            \o <<"/","j","o","b","s","/">> \o NatText(i),
         jobId |-> <<"j","o","b","_">> \o now \o <<"_">> \o NatText(i),
         source |-> FALLBACK_SOURCE]

generateFallbackJobs(query, seed, now) ==
    LET count == RandomBelow(seed, 0, FALLBACK_COUNT_RANGE) + FALLBACK_MIN_COUNT
    IN  [k \in 1..count |-> FallbackJob(query, seed, now, k - 1)]
-----------------------------------------------------------------------------
(* Bounds of the model and the sample data of the environment               *)

\* the ingestion runs (one per trigger); a direct call of searchJobs uses run 1
Runs == {1, 2}

\* the largest numPages a direct caller of searchJobs passes
MaxNumPages == 3

\* the raw jobs the API serves in all, over every page of a behaviour
MaxApiJobs == 2

\* parseInt(process.env.API_RETRY_ATTEMPTS || '3')
maxRetries == 3

\* the request attempts that fail in all: enough to exhaust the retries of
\* one page, and one more
MaxApiFaults == maxRetries + 2

TEXT_DEV == <<"D","e","v">>

TEXT_QA == <<"q","a">>

COUNTRY_IN == <<"i","n">>

COUNTRY_US == <<"u","s">>

\* dedicated location fields and a real apply link: a job in India
RAW_PUNE ==
    [job_title |-> TEXT_DEV, employer_name |-> <<"A","c","m","e">>,
     job_city |-> <<"P","u","n","e">>, job_state |-> <<"M","H">>, job_country |-> <<"I","N">>,
     job_apply_link |-> <<"h","t","t","p","s",":","/","/","a","c","m","e",".","i","o","/","j","/","1">>]

\* only a combined location string, and the company only in the title
RAW_AUSTIN ==
    [job_title |-> <<"D","e","v"," ","a","t"," ","I","n","i","t","e","c","h">>,
     job_location |-> <<"A","u","s","t","i","n",","," ","T","X",","," ","U","S">>]

\* no location at all
RAW_BARE == [job_title |-> TEXT_DEV]

\* a country that is not a string
RAW_NUMERIC == [job_title |-> TEXT_DEV, job_country |-> Num(7)]

\* a title that is not a string, and no company field
RAW_MALFORMED ==
    [job_title |-> Num(7), job_city |-> <<"P","u","n","e">>, job_country |-> <<"I","N">>]

\* the data sets the API is given
Catalogs ==
    { {RAW_PUNE, RAW_AUSTIN, Null}, {RAW_PUNE, RAW_BARE, RAW_NUMERIC}, {RAW_PUNE, RAW_MALFORMED} }

\* the draws of a call of generateFallbackJobs: the first random sample and
\* the text of Date.now()
FallbackDraws ==
    { [seed |-> 0, now |-> <<"1","0","0","0">>],
      [seed |-> RandRes - 1, now |-> <<"2","0","0","0">>] }

-----------------------------------------------------------------------------
(* State                                                                    *)

VARIABLES
    apiKey,         \* the service has an API key (constructor)
    catalog,        \* environment: the raw jobs the API can serve
    apiJobsLeft,    \* environment: raw jobs the API still serves
    apiFaultsLeft,  \* environment: request attempts that may still fail
    probe,          \* one direct call of isLocationInCountry or parseJobData:
                    \* arguments and outcome
    fpc,            \* per run: the position of its searchJobs call
    fparams,        \* per run: the params of the call
    page,           \* per run: the loop variable of searchJobs
    retryCount,     \* per run: the retryCount of makeRequestWithRetry
    jobs,           \* per run: the accepted jobs accumulated so far
    result,         \* per run: the accumulated jobs searchJobs returned, if it did
    fallback,       \* per run: the draws of the generateFallbackJobs call it returned
    retSite,        \* per run: the return statement that returned it
    reqLog,         \* history: every request issued, its page and how it ended
    pagesSeen,      \* history: the job array of every page handed to the loop
    lastAnswer      \* history: how the last request of the run was answered

fetchVars ==
    <<fpc, fparams, page, retryCount, jobs, result, fallback, retSite, reqLog, pagesSeen,
      lastAnswer>>

envVars == <<apiKey, catalog, apiJobsLeft, apiFaultsLeft, probe>>

VARIABLES
    run,            \* per run: the position and the locals of runCrawlers
    sessions,       \* the ScrapeSession collection: per run its document, if any
    jobStore,       \* the Job collection, in insertion order (_id = position)
    companyStore,   \* the Company collection: the names (_id = position)
    auditLog,       \* the AuditLog collection: per session the entries
    dbFaultsLeft,   \* environment: database operations that may still reject
    trace           \* history per run: response, status writes, saves, throws

storeVars == <<sessions, jobStore, companyStore, auditLog>>

orchVars == <<run, storeVars, dbFaultsLeft, trace>>

\* the catch of makeRequestWithRetry retrying once more than it does
RetryAllowedOnceMore(count) == count <= maxRetries

\* if (retryCount < this.maxRetries): the catch of makeRequestWithRetry
\* retries
RetryAllowed(count) == count < maxRetries

\* params.numPages || 5
DEFAULT_NUM_PAGES == 5

\* (numPages is a number; 0 stands for an absent numPages, falsy alike)
NumPagesOf(params) == IF params.numPages # 0 THEN params.numPages ELSE DEFAULT_NUM_PAGES

\* params.country || 'in'
CountryOf(params) == Or(params.country, COUNTRY_IN)

-----------------------------------------------------------------------------
(* Paginated fetcher: searchJobs and makeRequestWithRetry                   *)

RECURSIVE FilterPage(_, _, _)

\* a null result of the parser ending the page like a throw
FilterJobStopsAtNull(rest, country, acc, parsed) ==
    IF parsed = Null THEN [jobs |-> acc, threw |-> TRUE]
    ELSE IF isLocationInCountryThrows(country, parsed.location, parsed.city,
                                      parsed.state, parsed.country)
    THEN [jobs |-> acc, threw |-> TRUE]
    ELSE FilterPage(rest, country,
                    IF isLocationInCountry(country, parsed.location, parsed.city,
                                           parsed.state, parsed.country)
                    THEN Append(acc, parsed) ELSE acc)

\* one raw job of the page: a null result of the parser is skipped, an
\* accepted job is pushed; a throw of the classifier leaves the loop with
\* what was pushed before it
FilterJob(rest, country, acc, parsed) ==
    IF parsed = Null THEN FilterPage(rest, country, acc)
    ELSE IF isLocationInCountryThrows(country, parsed.location, parsed.city,
                                      parsed.state, parsed.country)
    THEN [jobs |-> acc, threw |-> TRUE]
    ELSE FilterPage(rest, country,
                    IF isLocationInCountry(country, parsed.location, parsed.city,
                                           parsed.state, parsed.country)
                    THEN Append(acc, parsed) ELSE acc)

\* the for-loop over one page's raw jobs
FilterPage(apiJobs, country, acc) ==
    IF apiJobs = <<>> THEN [jobs |-> acc, threw |-> FALSE]
    ELSE FilterJob(Tail(apiJobs), country, acc, parseJobData(Head(apiJobs)))

NoDraw == [seed |-> 0, now |-> <<>>]

\* no request of the run has been answered
NoAnswer == [rejected |-> FALSE, ok |-> FALSE, error |-> FALSE]

FallbackSites == {"no_key", "first_page_failed", "no_jobs"}

\* the list a finished call of searchJobs returned
ReturnedJobs(r) ==
    IF retSite[r] \in FallbackSites
    THEN generateFallbackJobs(fparams[r].query, fallback[r].seed, fallback[r].now)
    ELSE result[r]

\* return this.generateFallbackJobs(params), from the return statement `site`
\* (the state keeps the draws of the call; ReturnedJobs is the list)
ReturnFallback(r, site) ==
    \E draw \in FallbackDraws :
        /\ fallback' = [fallback EXCEPT ![r] = draw]
        /\ result' = [result EXCEPT ![r] = <<>>]
        /\ retSite' = [retSite EXCEPT ![r] = site]
        /\ fpc' = [fpc EXCEPT ![r] = "returned"]

\* the code after the page loop returning the accumulated jobs as they are
AfterLoopReturnsAccumulated(r, acc) ==
    /\ result' = [result EXCEPT ![r] = acc]
    /\ fallback' = [fallback EXCEPT ![r] = NoDraw]
    /\ retSite' = [retSite EXCEPT ![r] = "jobs"]
    /\ fpc' = [fpc EXCEPT ![r] = "returned"]

\* the code after the page loop: the accumulated jobs, or synthetic jobs when
\* there are none
AfterLoop(r, acc) ==
    IF acc = <<>>
    THEN ReturnFallback(r, "no_jobs")
    ELSE /\ result' = [result EXCEPT ![r] = acc]
         /\ fallback' = [fallback EXCEPT ![r] = NoDraw]
         /\ retSite' = [retSite EXCEPT ![r] = "jobs"]
         /\ fpc' = [fpc EXCEPT ![r] = "returned"]

\* catch (pageError) throwing the error on to the caller of searchJobs
PageErrorRethrows(r, acc) ==
    /\ fpc' = [fpc EXCEPT ![r] = "threw"]
    /\ UNCHANGED <<result, fallback, retSite>>

\* catch (pageError): the first page falls back, a later page ends the loop
PageError(r, acc) ==
    IF page[r] = 1 THEN ReturnFallback(r, "first_page_failed") ELSE AfterLoop(r, acc)

\* searchJobs entering the page loop whether or not a key is configured
SearchJobsBeginWithoutKeyCheck(r) ==
    /\ fpc[r] = "called"
    /\ page' = [page EXCEPT ![r] = 1]
    /\ retryCount' = [retryCount EXCEPT ![r] = 0]
    /\ jobs' = [jobs EXCEPT ![r] = <<>>]
    /\ fpc' = [fpc EXCEPT ![r] = "rate_delay"]
    /\ reqLog' = [reqLog EXCEPT ![r] = <<>>]
    /\ pagesSeen' = [pagesSeen EXCEPT ![r] = <<>>]
    /\ lastAnswer' = [lastAnswer EXCEPT ![r] = NoAnswer]
    /\ UNCHANGED <<result, fallback, retSite, fparams, envVars, orchVars>>

\* searchJobs up to its first await: without an API key it returns synthetic
\* jobs at once, else it enters the loop at page 1 and makeRequestWithRetry
\* starts its rate-limit delay
SearchJobsBegin(r) ==
    /\ fpc[r] = "called"
    /\ IF ~apiKey
       THEN /\ ReturnFallback(r, "no_key")
            /\ UNCHANGED <<page, retryCount, jobs>>
       ELSE /\ page' = [page EXCEPT ![r] = 1]
            /\ retryCount' = [retryCount EXCEPT ![r] = 0]
            /\ jobs' = [jobs EXCEPT ![r] = <<>>]
            /\ fpc' = [fpc EXCEPT ![r] = "rate_delay"]
            /\ UNCHANGED <<result, fallback, retSite>>
    /\ reqLog' = [reqLog EXCEPT ![r] = <<>>]
    /\ pagesSeen' = [pagesSeen EXCEPT ![r] = <<>>]
    /\ lastAnswer' = [lastAnswer EXCEPT ![r] = NoAnswer]
    /\ UNCHANGED <<fparams, envVars, orchVars>>

\* await this.delay(this.requestDelay) is over: the request is sent
SendRequest(r) ==
    /\ fpc[r] = "rate_delay"
    /\ fpc' = [fpc EXCEPT ![r] = "in_flight"]
    /\ reqLog' = [reqLog EXCEPT ![r] = Append(@, [page |-> page[r], outcome |-> "pending"])]
    /\ UNCHANGED <<fparams, page, retryCount, jobs, result, fallback, retSite, pagesSeen, lastAnswer,
                   envVars, orchVars>>

\* what a request can come back with: fetch() rejects, or a response with a
\* status and a JSON body {data, error}; data is absent, an array of raw
\* jobs, or an object that may hold the array as its `jobs`
JobArrays(maxJobs) == UNION { [1..n -> catalog] : n \in 0..maxJobs }

Bodies(ok, error, maxJobs) ==
    { [rejected |-> FALSE, ok |-> ok, error |-> error, shape |-> s, apiJobs |-> <<>>] :
        s \in {"absent", "object_without_jobs"} }
    \cup
    { [rejected |-> FALSE, ok |-> ok, error |-> error, shape |-> s, apiJobs |-> a] :
        s \in {"array", "object"}, a \in JobArrays(maxJobs) }

\* the answers that makeRequestWithRetry returns to the page loop
GoodOutcomes(maxJobs) == Bodies(TRUE, FALSE, maxJobs)

\* the answers on which it throws (their body, if any, is never read; the
\* model gives it at most one job)
BadOutcomes ==
    { [rejected |-> TRUE, ok |-> FALSE, error |-> FALSE, shape |-> "absent", apiJobs |-> <<>>] }
    \cup Bodies(FALSE, FALSE, 1) \cup Bodies(TRUE, TRUE, 1) \cup Bodies(FALSE, TRUE, 1)

\* the error field of the body not looked at
AttemptFailsIgnoringErrorField(out) == out.rejected \/ ~out.ok

\* makeRequestWithRetry throws on a rejected fetch, on a status that is not
\* OK and on a body with a truthy error
AttemptFails(out) == out.rejected \/ ~out.ok \/ out.error

\* the job array the page loop reads from a returned body
ApiJobsOf(out) == IF out.shape \in {"array", "object"} THEN out.apiJobs ELSE <<>>

\* the answer to the request in flight arrives
ResponseArrives(r) ==
    /\ fpc[r] = "in_flight"
    /\ \E out \in GoodOutcomes(apiJobsLeft) \cup (IF apiFaultsLeft > 0 THEN BadOutcomes ELSE {}) :
        /\ reqLog' = [reqLog EXCEPT ![r][Len(reqLog[r])].outcome =
                                        IF AttemptFails(out) THEN "failed" ELSE "ok"]
        /\ lastAnswer' = [lastAnswer EXCEPT ![r] =
                            [rejected |-> out.rejected, ok |-> out.ok, error |-> out.error]]
        /\ IF AttemptFails(out)
           THEN \* catch of makeRequestWithRetry
                /\ apiFaultsLeft' = apiFaultsLeft - 1
                /\ UNCHANGED <<apiJobsLeft, pagesSeen>>
                /\ IF RetryAllowed(retryCount[r])
                   THEN /\ fpc' = [fpc EXCEPT ![r] = "backoff"]
                        /\ UNCHANGED <<jobs, result, fallback, retSite>>
                   ELSE /\ PageError(r, jobs[r])
                        /\ UNCHANGED jobs
           ELSE /\ apiJobsLeft' = apiJobsLeft - Len(out.apiJobs)
                /\ UNCHANGED apiFaultsLeft
                /\ IF out.shape = "absent"
                   THEN \* Empty response
                        /\ AfterLoop(r, jobs[r])
                        /\ UNCHANGED <<jobs, pagesSeen>>
                   ELSE /\ pagesSeen' = [pagesSeen EXCEPT ![r] = Append(@, ApiJobsOf(out))]
                        /\ IF ApiJobsOf(out) = <<>>
                           THEN \* No more jobs, stopping pagination
                                /\ AfterLoop(r, jobs[r])
                                /\ UNCHANGED jobs
                           ELSE \E f \in {FilterPage(ApiJobsOf(out), CountryOf(fparams[r]), jobs[r])} :
                                    /\ jobs' = [jobs EXCEPT ![r] = f.jobs]
                                    /\ IF f.threw
                                       THEN PageError(r, f.jobs)
                                       ELSE /\ fpc' = [fpc EXCEPT ![r] = "page_delay"]
                                            /\ UNCHANGED <<result, fallback, retSite>>
    /\ UNCHANGED <<fparams, page, retryCount, apiKey, catalog, probe, orchVars>>

\* the retry sent as soon as the backoff is over
BackoffElapsesSendsAtOnce(r) ==
    /\ fpc[r] = "backoff"
    /\ retryCount' = [retryCount EXCEPT ![r] = @ + 1]
    /\ fpc' = [fpc EXCEPT ![r] = "in_flight"]
    /\ reqLog' = [reqLog EXCEPT ![r] = Append(@, [page |-> page[r], outcome |-> "pending"])]
    /\ UNCHANGED <<fparams, page, jobs, result, fallback, retSite, pagesSeen, lastAnswer, envVars,
                   orchVars>>

\* await this.delay(2000 * (retryCount + 1)) is over: the recursive call
\* with retryCount + 1 starts its rate-limit delay
BackoffElapses(r) ==
    /\ fpc[r] = "backoff"
    /\ retryCount' = [retryCount EXCEPT ![r] = @ + 1]
    /\ fpc' = [fpc EXCEPT ![r] = "rate_delay"]
    /\ UNCHANGED <<fparams, page, jobs, result, fallback, retSite, reqLog, pagesSeen, lastAnswer,
                   envVars, orchVars>>

\* await this.delay(this.requestDelay * 2) is over: page++ and either the
\* next page's request or the end of the loop
PageDelayElapses(r) ==
    /\ fpc[r] = "page_delay"
    /\ IF page[r] + 1 <= NumPagesOf(fparams[r])
       THEN /\ page' = [page EXCEPT ![r] = @ + 1]
            /\ retryCount' = [retryCount EXCEPT ![r] = 0]
            /\ fpc' = [fpc EXCEPT ![r] = "rate_delay"]
            /\ UNCHANGED <<result, fallback, retSite>>
       ELSE /\ AfterLoop(r, jobs[r])
            /\ UNCHANGED <<page, retryCount>>
    /\ UNCHANGED <<fparams, jobs, reqLog, pagesSeen, lastAnswer, envVars, orchVars>>

FetchStep(r) ==
    \/ SearchJobsBegin(r)
    \/ SendRequest(r)
    \/ ResponseArrives(r)
    \/ BackoffElapses(r)
    \/ PageDelayElapses(r)

-----------------------------------------------------------------------------
(* Specification of one direct call of searchJobs                           *)

FetchParams ==
    [query : {TEXT_QA}, location : {Undefined}, country : {COUNTRY_IN, COUNTRY_US},
     numPages : 0..MaxNumPages, pageSize : {0}]

\* the locals of a run that was not triggered
NoRun ==
    [pc |-> "idle", buckets |-> <<>>, filterIndianJobs |-> TRUE, country |-> <<>>,
     location |-> <<>>, mappedCountry |-> <<>>, bucket |-> 0,
     totalApiCalls |-> 0, totalJobsFound |-> 0, countryJobsFound |-> 0,
     countryJobsAdded |-> 0, newJobsAdded |-> 0, jobsUpdated |-> 0,
     bucketsCompleted |-> <<>>, bucketsFailed |-> <<>>,
     toSave |-> <<>>, newCount |-> 0, updatedCount |-> 0, company |-> 0, existingJob |-> 0,
     jobsWithSession |-> 0]

NoTrace ==
    [response |-> "none", statusWrites |-> <<>>, saved |-> <<>>, fetchThrew |-> {}]

InitOrch ==
    /\ run = [r \in Runs |-> NoRun]
    /\ sessions = [r \in Runs |-> [exists |-> FALSE]]
    /\ jobStore = <<>>
    /\ companyStore = <<>>
    /\ auditLog = [r \in Runs |-> <<>>]
    /\ trace = [r \in Runs |-> NoTrace]

\* no direct call of isLocationInCountry or parseJobData
NoProbe ==
    [targetCountryIso |-> <<>>, location |-> Undefined, city |-> Undefined,
     state |-> Undefined, country |-> Undefined, verdict |-> "idle"]

InitFetch ==
    /\ InitOrch
    /\ probe = NoProbe
    /\ dbFaultsLeft = 0
    /\ apiKey \in BOOLEAN
    /\ catalog \in Catalogs
    /\ apiJobsLeft = MaxApiJobs
    /\ apiFaultsLeft = MaxApiFaults
    /\ \E p \in FetchParams :
        /\ fparams = [r \in Runs |-> IF r = 1 THEN p ELSE Undefined]
    /\ fpc = [r \in Runs |-> IF r = 1 THEN "called" ELSE "idle"]
    /\ page = [r \in Runs |-> 0]
    /\ retryCount = [r \in Runs |-> 0]
    /\ jobs = [r \in Runs |-> <<>>]
    /\ result = [r \in Runs |-> <<>>]
    /\ fallback = [r \in Runs |-> NoDraw]
    /\ retSite = [r \in Runs |-> "none"]
    /\ reqLog = [r \in Runs |-> <<>>]
    /\ pagesSeen = [r \in Runs |-> <<>>]
    /\ lastAnswer = [r \in Runs |-> NoAnswer]

vars == <<envVars, fetchVars, orchVars>>

NextFetch == \E r \in Runs : FetchStep(r)

SpecFetch == InitFetch /\ [][NextFetch]_vars

-----------------------------------------------------------------------------
(* Orchestrator: runCrawlers, saveJobsToDatabase and                        *)
(* verifyScrapedJobsInDatabase, one action per await                        *)

\* the database operations that may still reject in all
MaxDbFaults == 2

INDIA == <<"I","n","d","i","a">>

UNITED_STATES == <<"U","n","i","t","e","d"," ","S","t","a","t","e","s">>

countryMap ==
    (UNITED_STATES :> COUNTRY_US)
    @@ (<<"S","p","a","i","n">> :> <<"e","s">>)
    @@ (<<"U","n","i","t","e","d"," ","K","i","n","g","d","o","m">> :> <<"u","k">>)
    @@ (<<"C","a","n","a","d","a">> :> <<"c","a">>)
    @@ (<<"A","u","s","t","r","a","l","i","a">> :> <<"a","u">>)
    @@ (<<"G","e","r","m","a","n","y">> :> <<"d","e">>)
    @@ (<<"F","r","a","n","c","e">> :> <<"f","r">>)
    @@ (<<"N","e","t","h","e","r","l","a","n","d","s">> :> <<"n","l">>)
    @@ (INDIA :> COUNTRY_IN)
    @@ (<<"S","i","n","g","a","p","o","r","e">> :> <<"s","g">>)

\* the request bodies of the model: no bucket or one bucket, with the filter
\* on or off and the country absent (so 'India') or one that countryMap does
\* not know; and three buckets with the defaults (asked for by the first run
\* of the model only)
Requests ==
    [buckets : {<<>>, <<TEXT_QA>>}, filterIndianJobs : BOOLEAN,
     country : {Undefined, <<"M","a","r","s">>}, location : {Undefined}]
    \cup {[buckets |-> <<TEXT_QA, TEXT_DEV, <<"o","p","s">>>>, filterIndianJobs |-> TRUE,
           country |-> Undefined, location |-> Undefined]}

\* the locals of runCrawlers after its synchronous start, for a valid body
\* (an absent country or location is 'India')
Triggered(req) ==
    [NoRun EXCEPT !.pc = "session_create",
                  !.buckets = req.buckets,
                  !.filterIndianJobs = req.filterIndianJobs,
                  !.country = IF req.country = Undefined THEN INDIA ELSE req.country,
                  !.location = IF req.location = Undefined THEN INDIA ELSE req.location,
                  !.mappedCountry =
                      Or(Lookup(countryMap, IF req.country = Undefined THEN INDIA
                                            ELSE req.country), COUNTRY_US)]

\* the document ScrapeSession.create stores (dates and user left out; the
\* schema has no indianJobsAdded and gives countryJobsAdded its default)
NewSession(r, l) ==
    [exists |-> TRUE, sessionId |-> r, bucketsRequested |-> l.buckets,
     bucketsCompleted |-> <<>>, bucketsFailed |-> <<>>, status |-> "in_progress",
     totalApiCalls |-> 0, totalJobsFound |-> 0, countryJobsFound |-> 0,
     countryJobsAdded |-> 0, newJobsAdded |-> 0, jobsUpdated |-> 0,
     triggeredBy |-> "admin", filterIndianJobs |-> l.filterIndianJobs,
     country |-> l.mappedCountry, location |-> l.location, originalCountry |-> l.country,
     errorMessage |-> Undefined]

\* the status rule ignoring the failed buckets
FinalStatusAlwaysCompleted(bucketsFailed) == "completed"

\* bucketsFailed.length === 0 ? 'completed' : 'partial'
FinalStatus(bucketsFailed) == IF Len(bucketsFailed) = 0 THEN "completed" ELSE "partial"

\* the document after the update that follows the bucket loop
FinalSession(doc, l) ==
    [doc EXCEPT !.status = FinalStatus(l.bucketsFailed),
                !.bucketsCompleted = l.bucketsCompleted,
                !.bucketsFailed = l.bucketsFailed,
                !.totalApiCalls = l.totalApiCalls,
                !.totalJobsFound = l.totalJobsFound,
                !.countryJobsFound = IF l.filterIndianJobs THEN l.countryJobsFound ELSE 0,
                !.countryJobsAdded = IF l.filterIndianJobs THEN l.countryJobsAdded ELSE 0,
                !.newJobsAdded = l.newJobsAdded,
                !.jobsUpdated = l.jobsUpdated]

\* the params of the searchJobs call for the current bucket
SearchParams(l) ==
    [query |-> l.buckets[l.bucket],
     location |-> IF l.filterIndianJobs THEN l.location ELSE UNITED_STATES,
     country |-> IF l.filterIndianJobs THEN l.mappedCountry ELSE COUNTRY_US,
     numPages |-> 10, pageSize |-> 50]

\* the top of the bucket loop counting the pages it asks for
EnterBucketCountingPages(l) ==
    IF l.bucket <= Len(l.buckets)
    THEN [l EXCEPT !.pc = "await_fetch", !.totalApiCalls = @ + SearchParams(l).numPages]
    ELSE [l EXCEPT !.pc = "final_update"]

\* the top of the bucket loop for the bucket l.bucket: the call of
\* searchJobs, or after the last bucket the final update of the session
EnterBucket(l) ==
    IF l.bucket <= Len(l.buckets)
    THEN [l EXCEPT !.pc = "await_fetch", !.totalApiCalls = @ + 1]
    ELSE [l EXCEPT !.pc = "final_update"]

\* bucketsCompleted.push(bucket), and the loop goes on
Completed(l) ==
    EnterBucket([l EXCEPT !.bucketsCompleted = Append(@, l.buckets[l.bucket]),
                          !.bucket = @ + 1])

\* the catch of the bucket loop treating the bucket as completed
FailedAsCompleted(l) == Completed(l)

\* the catch of the bucket loop giving the run up
FailedAbortsRun(l) ==
    [l EXCEPT !.bucketsFailed = Append(@, l.buckets[l.bucket]), !.pc = "catch_update"]

\* the catch of the bucket loop recording the bucket in both lists
FailedAndCompleted(l) ==
    EnterBucket([l EXCEPT !.bucketsFailed = Append(@, l.buckets[l.bucket]),
                          !.bucketsCompleted = Append(@, l.buckets[l.bucket]),
                          !.bucket = @ + 1])

\* catch (e): bucketsFailed.push(bucket), and the loop goes on
Failed(l) ==
    EnterBucket([l EXCEPT !.bucketsFailed = Append(@, l.buckets[l.bucket]),
                          !.bucket = @ + 1])

\* the bucket loop going on without awaiting saveJobsToDatabase
SaveLoopNotAwaited(l) == Completed(l)

\* the loop of saveJobsToDatabase: the next job's Company.findOne, or the
\* return of the counts to the bucket loop
SaveLoop(l) ==
    IF l.toSave # <<>> THEN [l EXCEPT !.pc = "company_find"]
    ELSE Completed([l EXCEPT !.newJobsAdded = @ + l.newCount,
                             !.jobsUpdated = @ + l.updatedCount,
                             !.countryJobsAdded = @ + l.newCount])

\* the end of a job's iteration counting the job as updated whether or not
\* its save threw
SaveNextCountsEveryJob(l) ==
    SaveLoop([l EXCEPT !.toSave = Tail(@), !.company = 0, !.existingJob = 0,
                       !.updatedCount = @ + 1])

\* the job at hand is over, saved or skipped by the catch of its iteration
SaveNext(l) == SaveLoop([l EXCEPT !.toSave = Tail(@), !.company = 0, !.existingJob = 0])

\* jsearchService.filterJobsByCountry
filterJobsByCountry(found, targetCountryIso) ==
    SelectSeq(found, LAMBDA job : isLocationInCountry(targetCountryIso, Prop(job, "location"),
                                     Prop(job, "city"), Prop(job, "state"), Prop(job, "country")))

filterJobsByCountryThrows(found, targetCountryIso) ==
    \E i \in DOMAIN found :
        isLocationInCountryThrows(targetCountryIso, Prop(found[i], "location"),
            Prop(found[i], "city"), Prop(found[i], "state"), Prop(found[i], "country"))

\* the object the bucket loop builds from a job for the Job collection
Transform(job) ==
    [title |-> Or(Prop(job, "title"), <<"U","n","t","i","t","l","e","d">>),
     company |-> Or(Prop(job, "company"), UNKNOWN_COMPANY),
     location |-> Or(Prop(job, "location"), <<"R","e","m","o","t","e">>),
     description |-> Or(Prop(job, "description"), <<>>),
     requirements |-> <<>>,
     responsibilities |-> <<>>,
     applyUrl |-> Or(Or(Prop(job, "externalLink"), Prop(job, "applyUrl")), <<>>),
     salary |-> IF Truthy(Prop(job, "maxSalary"))
                THEN AsText(Or(Prop(job, "minSalary"), <<>>)) \o <<"-">>
                       \o AsText(Prop(job, "maxSalary")) \o <<" ">>
                       \o AsText(Or(Prop(job, "salaryPeriod"), <<"Y","E","A","R","L","Y">>))
                ELSE <<>>,
     ctc |-> Prop(job, "maxSalary"),
     jobType |-> Or(Prop(job, "jobType"), <<"F","u","l","l","-","t","i","m","e">>),
     postedAt |-> Or(Prop(job, "postedDate"), <<"#date">>),
     source |-> Or(Prop(job, "source"), API_SOURCE),
     meta |-> [jobId |-> Prop(job, "jobId"), externalLink |-> Prop(job, "externalLink"),
               rawData |-> Prop(job, "rawData")]]

\* the counters, transformedJobs and the call of saveJobsToDatabase for the
\* jobs kept of those found
StartSave(l, found, kept) ==
    SaveLoop([l EXCEPT !.totalJobsFound = @ + Len(found),
                       !.countryJobsFound = IF l.filterIndianJobs THEN @ + Len(kept) ELSE @,
                       !.toSave = [i \in DOMAIN kept |-> Transform(kept[i])],
                       !.newCount = 0, !.updatedCount = 0])

\* the bucket loop from the return of searchJobs to the first await of
\* saveJobsToDatabase
AfterFetch(l, found) ==
    IF found = <<>> THEN Completed(l)
    ELSE IF l.filterIndianJobs /\ filterJobsByCountryThrows(found, l.mappedCountry)
    THEN Failed([l EXCEPT !.totalJobsFound = @ + Len(found)])
    ELSE StartSave(l, found, IF l.filterIndianJobs
                             THEN filterJobsByCountry(found, l.mappedCountry)
                             ELSE found)

\* Company.findOne({ name }): the _id of the first company of that name, or 0
CompanyFindOne(name) ==
    IF \E i \in DOMAIN companyStore : companyStore[i] = name
    THEN Least({i \in DOMAIN companyStore : companyStore[i] = name}) ELSE 0

\* what jobIdentifier tells jobs apart by, with the company by its name
JobKey(jobData) == <<jobData.title, jobData.company, jobData.location>>

\* jobIdentifier matching no stored document
NoJobMatches(jobData, companyId) == {}

\* the documents that match jobIdentifier
JobMatches(jobData, companyId) ==
    {i \in DOMAIN jobStore : /\ jobStore[i].title = jobData.title
                             /\ jobStore[i].companyId = companyId
                             /\ jobStore[i].location = jobData.location}

\* Job.findOne(jobIdentifier): the _id of the first match, or 0
JobFindOne(jobData, companyId) ==
    IF JobMatches(jobData, companyId) = {} THEN 0 ELSE Least(JobMatches(jobData, companyId))

\* the writes of a job without the session's id
JobFieldsUnstamped(jobData, companyId, bucket, sessionId) ==
    [field \in DOMAIN jobData \cup {"companyId", "company", "sessionId", "bucket"} |->
        CASE field = "companyId" -> companyId
          [] field = "company" -> companyStore[companyId]
          [] field = "sessionId" -> 0
          [] field = "bucket" -> bucket
          [] OTHER -> jobData[field]]

\* the fields both writes of a job set (the dates are left out)
JobFields(jobData, companyId, bucket, sessionId) ==
    [field \in DOMAIN jobData \cup {"companyId", "company", "sessionId", "bucket"} |->
        CASE field = "companyId" -> companyId
          [] field = "company" -> companyStore[companyId]
          [] field = "sessionId" -> sessionId
          [] field = "bucket" -> bucket
          [] OTHER -> jobData[field]]

\* Job.create: the new document
NewJob(jobData, companyId, bucket, sessionId) ==
    [field \in DOMAIN jobData \cup {"companyId", "company", "sessionId", "bucket", "status"} |->
        CASE field = "status" -> "published"
          [] field = "source" -> Or(jobData.source, API_SOURCE)
          [] OTHER -> JobFields(jobData, companyId, bucket, sessionId)[field]]

\* an awaited database operation resolves (TRUE) or rejects
DbOutcomes == IF dbFaultsLeft > 0 THEN {TRUE, FALSE} ELSE {TRUE}

DbSettles(ok) == dbFaultsLeft' = IF ok THEN dbFaultsLeft ELSE dbFaultsLeft - 1

restVars == <<envVars, page, retryCount, jobs, reqLog, pagesSeen, lastAnswer>>

retVars == <<result, fallback, retSite>>

\* the run goes on with the locals l; when it stands at the call of
\* searchJobs, the call is issued
Continue(r, l) ==
    /\ run' = [run EXCEPT ![r] = l]
    /\ IF l.pc = "await_fetch"
       THEN /\ fpc' = [fpc EXCEPT ![r] = "called"]
            /\ fparams' = [fparams EXCEPT ![r] = SearchParams(l)]
       ELSE /\ fpc' = [fpc EXCEPT ![r] = "idle"]
            /\ UNCHANGED fparams

Finished == {"rejected", "error", "done", "crashed"}

\* POST: runCrawlers up to await ScrapeSession.create, or its 400 answer;
\* the runs of the model are triggered one after the other has ended
Trigger(r) ==
    /\ run[r].pc = "idle"
    /\ \A s \in Runs : s < r => run[s].pc \in Finished
    /\ \E req \in {body \in Requests : r = 1 \/ Len(body.buckets) <= 1} :
        IF req.buckets = <<>>
        THEN /\ run' = [run EXCEPT ![r].pc = "rejected"]
             /\ trace' = [trace EXCEPT ![r].response = "400"]
        ELSE /\ run' = [run EXCEPT ![r] = Triggered(req)]
             /\ UNCHANGED trace
    /\ UNCHANGED <<storeVars, dbFaultsLeft, fpc, fparams, retVars, restVars>>

\* ScrapeSession.create settles; a rejection reaches the outer catch (500)
SessionCreated(r) ==
    /\ run[r].pc = "session_create"
    /\ \E ok \in DbOutcomes :
        /\ DbSettles(ok)
        /\ IF ok
           THEN /\ sessions' = [sessions EXCEPT ![r] = NewSession(r, run[r])]
                /\ run' = [run EXCEPT ![r].pc = "audit_start"]
                /\ trace' = [trace EXCEPT ![r].statusWrites =
                                Append(@, [status |-> "in_progress", by |-> "create"])]
           ELSE /\ run' = [run EXCEPT ![r].pc = "error"]
                /\ trace' = [trace EXCEPT ![r].response = "500"]
                /\ UNCHANGED sessions
    /\ UNCHANGED <<jobStore, companyStore, auditLog, fpc, fparams, retVars, restVars>>

\* the start of the background work without the response having been sent
StartAuditedSilently(r) ==
    /\ run[r].pc = "audit_start"
    /\ \E ok \in DbOutcomes :
        /\ DbSettles(ok)
        /\ run' = [run EXCEPT ![r].pc = IF ok THEN "background" ELSE "error"]
        /\ trace' = [trace EXCEPT ![r].response = IF ok THEN "none" ELSE "500"]
    /\ UNCHANGED <<storeVars, fpc, fparams, retVars, restVars>>

\* AuditLog.create('scrape_started') settles: res.json and setImmediate, or
\* the outer catch (500)
StartAudited(r) ==
    /\ run[r].pc = "audit_start"
    /\ \E ok \in DbOutcomes :
        /\ DbSettles(ok)
        /\ IF ok
           THEN /\ auditLog' = [auditLog EXCEPT ![r] = Append(@, [action |-> "scrape_started",
                                                                  status |-> "in_progress"])]
                /\ run' = [run EXCEPT ![r].pc = "background"]
                /\ trace' = [trace EXCEPT ![r].response = "json"]
           ELSE /\ run' = [run EXCEPT ![r].pc = "error"]
                /\ trace' = [trace EXCEPT ![r].response = "500"]
                /\ UNCHANGED auditLog
    /\ UNCHANGED <<sessions, jobStore, companyStore, fpc, fparams, retVars, restVars>>

\* the setImmediate callback starts: the first bucket's call of searchJobs
BackgroundBegins(r) ==
    /\ run[r].pc = "background"
    /\ Continue(r, EnterBucket([run[r] EXCEPT !.bucket = 1]))
    /\ UNCHANGED <<storeVars, dbFaultsLeft, trace, retVars, restVars>>

\* await jsearchService.searchJobs settles
FetchSettled(r) ==
    /\ run[r].pc = "await_fetch"
    /\ fpc[r] \in {"returned", "threw"}
    /\ IF fpc[r] = "threw"
       THEN /\ Continue(r, Failed(run[r]))
            /\ trace' = [trace EXCEPT ![r].fetchThrew = @ \cup {run[r].bucket}]
       ELSE /\ \E found \in {ReturnedJobs(r)} : Continue(r, AfterFetch(run[r], found))
            /\ UNCHANGED trace
    /\ result' = [result EXCEPT ![r] = <<>>]
    /\ fallback' = [fallback EXCEPT ![r] = NoDraw]
    /\ retSite' = [retSite EXCEPT ![r] = "none"]
    /\ UNCHANGED <<storeVars, dbFaultsLeft, restVars>>

\* Company.findOne settles; a rejection is caught by the job's own catch
CompanyFound(r) ==
    /\ run[r].pc = "company_find"
    /\ \E ok \in DbOutcomes :
        /\ DbSettles(ok)
        /\ IF ~ok THEN Continue(r, SaveNext(run[r]))
           ELSE \E id \in {CompanyFindOne(Head(run[r].toSave).company)} :
                    Continue(r, [run[r] EXCEPT !.company = id,
                                               !.pc = IF id = 0 THEN "company_create"
                                                      ELSE "job_find"])
    /\ UNCHANGED <<storeVars, trace, retVars, restVars>>

\* Company.create settles
CompanyCreated(r) ==
    /\ run[r].pc = "company_create"
    /\ \E ok \in DbOutcomes :
        /\ DbSettles(ok)
        /\ IF ok
           THEN /\ companyStore' = Append(companyStore, Head(run[r].toSave).company)
                /\ Continue(r, [run[r] EXCEPT !.company = Len(companyStore) + 1,
                                              !.pc = "job_find"])
           ELSE /\ Continue(r, SaveNext(run[r]))
                /\ UNCHANGED companyStore
    /\ UNCHANGED <<sessions, jobStore, auditLog, trace, retVars, restVars>>

\* Job.findOne(jobIdentifier) settles
JobFound(r) ==
    /\ run[r].pc = "job_find"
    /\ \E ok \in DbOutcomes :
        /\ DbSettles(ok)
        /\ IF ok
           THEN Continue(r, [run[r] EXCEPT
                                !.existingJob = JobFindOne(Head(run[r].toSave), run[r].company),
                                !.pc = "job_write"])
           ELSE Continue(r, SaveNext(run[r]))
    /\ UNCHANGED <<storeVars, trace, retVars, restVars>>

\* Job.findByIdAndUpdate, or Job.create, settles
JobWritten(r) ==
    /\ run[r].pc = "job_write"
    /\ \E ok \in DbOutcomes :
        /\ DbSettles(ok)
        /\ IF ~ok
           THEN /\ Continue(r, SaveNext(run[r]))
                /\ UNCHANGED <<jobStore, trace>>
           ELSE IF run[r].existingJob # 0
           THEN /\ jobStore' = [jobStore EXCEPT ![run[r].existingJob] =
                                   JobFields(Head(run[r].toSave), run[r].company,
                                             run[r].buckets[run[r].bucket], r) @@ @]
                /\ trace' = [trace EXCEPT ![r].saved =
                                Append(@, [job |-> JobKey(Head(run[r].toSave)), how |-> "updated"])]
                /\ Continue(r, SaveNext([run[r] EXCEPT !.updatedCount = @ + 1]))
           ELSE /\ jobStore' = Append(jobStore, NewJob(Head(run[r].toSave), run[r].company,
                                                       run[r].buckets[run[r].bucket], r))
                /\ trace' = [trace EXCEPT ![r].saved =
                                Append(@, [job |-> JobKey(Head(run[r].toSave)), how |-> "new"])]
                /\ Continue(r, SaveNext([run[r] EXCEPT !.newCount = @ + 1]))
    /\ UNCHANGED <<sessions, companyStore, auditLog, retVars, restVars>>

\* the final ScrapeSession.findByIdAndUpdate settles; a rejection is caught
\* by catch (err), which starts its own update
FinalUpdated(r) ==
    /\ run[r].pc = "final_update"
    /\ \E ok \in DbOutcomes :
        /\ DbSettles(ok)
        /\ IF ok
           THEN /\ sessions' = [sessions EXCEPT ![r] = FinalSession(@, run[r])]
                /\ run' = [run EXCEPT ![r].pc = "audit_done"]
                /\ trace' = [trace EXCEPT ![r].statusWrites =
                                Append(@, [status |-> FinalStatus(run[r].bucketsFailed),
                                           by |-> "final"])]
           ELSE /\ run' = [run EXCEPT ![r].pc = "catch_update"]
                /\ UNCHANGED <<sessions, trace>>
    /\ UNCHANGED <<jobStore, companyStore, auditLog, fpc, fparams, retVars, restVars>>

\* AuditLog.create('scrape_completed') settles: the verification starts, or
\* catch (err) starts its update
CompletionAudited(r) ==
    /\ run[r].pc = "audit_done"
    /\ \E ok \in DbOutcomes :
        /\ DbSettles(ok)
        /\ IF ok
           THEN /\ auditLog' = [auditLog EXCEPT ![r] =
                                   Append(@, [action |-> "scrape_completed",
                                              status |-> FinalStatus(run[r].bucketsFailed)])]
                /\ run' = [run EXCEPT ![r].pc = "verify_count"]
           ELSE /\ run' = [run EXCEPT ![r].pc = "catch_update"]
                /\ UNCHANGED auditLog
    /\ UNCHANGED <<sessions, jobStore, companyStore, trace, fpc, fparams, retVars, restVars>>

\* the verification passing only above 80%
VerificationStatusStrict(jobsWithSession, expectedCount) ==
    IF 10 * jobsWithSession > 8 * expectedCount THEN "passed" ELSE "warning"

\* jobsWithSession >= expectedCount * 0.8
VerificationStatus(jobsWithSession, expectedCount) ==
    IF 10 * jobsWithSession >= 8 * expectedCount THEN "passed" ELSE "warning"

\* verifyScrapedJobsInDatabase: Job.countDocuments, Job.find and
\* AuditLog.create settle in turn; a rejection ends it in its own catch
VerifyStep(r) ==
    /\ run[r].pc \in {"verify_count", "verify_find", "verify_audit"}
    /\ \E ok \in DbOutcomes :
        /\ DbSettles(ok)
        /\ IF ~ok
           THEN /\ run' = [run EXCEPT ![r].pc = "done"]
                /\ UNCHANGED auditLog
           ELSE IF run[r].pc = "verify_count"
           THEN /\ run' = [run EXCEPT ![r].pc = "verify_find",
                                      ![r].jobsWithSession =
                                          Cardinality({i \in DOMAIN jobStore :
                                                          jobStore[i].sessionId = r})]
                /\ UNCHANGED auditLog
           ELSE IF run[r].pc = "verify_find"
           THEN /\ run' = [run EXCEPT ![r].pc = "verify_audit"]
                /\ UNCHANGED auditLog
           ELSE /\ run' = [run EXCEPT ![r].pc = "done"]
                /\ auditLog' = [auditLog EXCEPT ![r] =
                                   Append(@, [action |-> "scrape_completed",
                                              status |-> VerificationStatus(
                                                  run[r].jobsWithSession,
                                                  run[r].newJobsAdded)])]
    /\ UNCHANGED <<sessions, jobStore, companyStore, trace, fpc, fparams, retVars, restVars>>

\* catch (err): ScrapeSession.findByIdAndUpdate(status 'failed') settles; its
\* rejection leaves the callback as an unhandled rejection
CatchUpdated(r) ==
    /\ run[r].pc = "catch_update"
    /\ \E ok \in DbOutcomes :
        /\ DbSettles(ok)
        /\ IF ok
           THEN /\ sessions' = [sessions EXCEPT ![r].status = "failed",
                                                ![r].errorMessage = <<"E","r","r","o","r">>]
                /\ run' = [run EXCEPT ![r].pc = "catch_audit"]
                /\ trace' = [trace EXCEPT ![r].statusWrites =
                                Append(@, [status |-> "failed", by |-> "catch"])]
           ELSE /\ run' = [run EXCEPT ![r].pc = "crashed"]
                /\ UNCHANGED <<sessions, trace>>
    /\ UNCHANGED <<jobStore, companyStore, auditLog, fpc, fparams, retVars, restVars>>

\* catch (err): AuditLog.create('scrape_failed') settles
CatchAudited(r) ==
    /\ run[r].pc = "catch_audit"
    /\ \E ok \in DbOutcomes :
        /\ DbSettles(ok)
        /\ IF ok
           THEN /\ auditLog' = [auditLog EXCEPT ![r] = Append(@, [action |-> "scrape_failed",
                                                                  status |-> "failed"])]
                /\ run' = [run EXCEPT ![r].pc = "done"]
           ELSE /\ run' = [run EXCEPT ![r].pc = "crashed"]
                /\ UNCHANGED auditLog
    /\ UNCHANGED <<sessions, jobStore, companyStore, trace, fpc, fparams, retVars, restVars>>

\* the progress counting the failed buckets with the completed ones
getScrapingStatusCountingFailed(sessionId, resolves) ==
    IF ~resolves THEN [code |-> 500]
    ELSE IF ~(sessionId \in DOMAIN sessions /\ sessions[sessionId].exists)
    THEN [code |-> 404]
    ELSE [code |-> 200,
          progress |-> <<100 * (Len(sessions[sessionId].bucketsCompleted)
                                + Len(sessions[sessionId].bucketsFailed)),
                         Len(sessions[sessionId].bucketsRequested)>>]

\* getScrapingStatus: the answer to a poll for sessionId, ScrapeSession.findOne
\* resolving or rejecting; progress (a / b * 100) is kept as the exact
\* fraction <<100 * a, b>>, and 100 as <<100, 1>>
getScrapingStatus(sessionId, resolves) ==
    IF ~resolves THEN [code |-> 500]
    ELSE IF ~(sessionId \in DOMAIN sessions /\ sessions[sessionId].exists)
    THEN [code |-> 404]
    ELSE [code |-> 200,
          sessionId |-> sessions[sessionId].sessionId,
          status |-> sessions[sessionId].status,
          bucketsRequested |-> sessions[sessionId].bucketsRequested,
          bucketsCompleted |-> sessions[sessionId].bucketsCompleted,
          bucketsFailed |-> sessions[sessionId].bucketsFailed,
          totalApiCalls |-> sessions[sessionId].totalApiCalls,
          totalJobsFound |-> sessions[sessionId].totalJobsFound,
          newJobsAdded |-> sessions[sessionId].newJobsAdded,
          jobsUpdated |-> sessions[sessionId].jobsUpdated,
          progress |-> IF sessions[sessionId].status = "completed" THEN <<100, 1>>
                       ELSE <<100 * Len(sessions[sessionId].bucketsCompleted),
                              IF Len(sessions[sessionId].bucketsRequested) = 0 THEN 1
                              ELSE Len(sessions[sessionId].bucketsRequested)>>]

RunStep(r) ==
    \/ Trigger(r)
    \/ SessionCreated(r)
    \/ StartAudited(r)
    \/ BackgroundBegins(r)
    \/ FetchSettled(r)
    \/ CompanyFound(r)
    \/ CompanyCreated(r)
    \/ JobFound(r)
    \/ JobWritten(r)
    \/ FinalUpdated(r)
    \/ CompletionAudited(r)
    \/ VerifyStep(r)
    \/ CatchUpdated(r)
    \/ CatchAudited(r)

-----------------------------------------------------------------------------
(* Specification of the orchestrator with a stand-in for searchJobs: the    *)
(* call returns a list of jobs or rejects                                   *)

StubFetchReturns(r) ==
    /\ fpc[r] = "called"
    /\ \E found \in {<<>>, <<parseJobData(RAW_PUNE)>>,
                     <<parseJobData(RAW_PUNE), parseJobData(RAW_AUSTIN)>>} :
        /\ result' = [result EXCEPT ![r] = found]
        /\ retSite' = [retSite EXCEPT ![r] = "jobs"]
    /\ fpc' = [fpc EXCEPT ![r] = "returned"]
    /\ UNCHANGED <<fparams, fallback, orchVars, restVars>>

StubFetchThrows(r) ==
    /\ fpc[r] = "called"
    /\ fpc' = [fpc EXCEPT ![r] = "threw"]
    /\ UNCHANGED <<fparams, retVars, orchVars, restVars>>

InitRun ==
    /\ InitOrch
    /\ probe = NoProbe
    /\ dbFaultsLeft = MaxDbFaults
    /\ apiKey = TRUE
    /\ catalog = {}
    /\ apiJobsLeft = 0
    /\ apiFaultsLeft = 0
    /\ fparams = [r \in Runs |-> Undefined]
    /\ fpc = [r \in Runs |-> "idle"]
    /\ page = [r \in Runs |-> 0]
    /\ retryCount = [r \in Runs |-> 0]
    /\ jobs = [r \in Runs |-> <<>>]
    /\ result = [r \in Runs |-> <<>>]
    /\ fallback = [r \in Runs |-> NoDraw]
    /\ retSite = [r \in Runs |-> "none"]
    /\ reqLog = [r \in Runs |-> <<>>]
    /\ pagesSeen = [r \in Runs |-> <<>>]
    /\ lastAnswer = [r \in Runs |-> NoAnswer]

NextRun == \E r \in Runs : RunStep(r) \/ StubFetchReturns(r) \/ StubFetchThrows(r)

SpecRun == InitRun /\ [][NextRun]_vars

-----------------------------------------------------------------------------
(* Specification of one direct call of isLocationInCountry                  *)

\* the country values of the calls: absent, empty, and for the countries of
\* the tables and two others the name and the code in upper case
SAMPLE_COUNTRIES ==
    << [iso |-> COUNTRY_IN, name |-> INDIA],
       [iso |-> COUNTRY_US, name |-> UNITED_STATES],
       [iso |-> <<"u","k">>, name |-> <<"U","n","i","t","e","d"," ","K","i","n","g","d","o","m">>],
       [iso |-> <<"c","a">>, name |-> <<"C","a","n","a","d","a">>],
       [iso |-> <<"a","u">>, name |-> <<"A","u","s","t","r","a","l","i","a">>],
       [iso |-> <<"d","e">>, name |-> <<"G","e","r","m","a","n","y">>],
       [iso |-> <<"f","r">>, name |-> <<"F","r","a","n","c","e">>],
       [iso |-> <<"n","l">>, name |-> <<"N","e","t","h","e","r","l","a","n","d","s">>],
       [iso |-> <<"s","g">>, name |-> <<"S","i","n","g","a","p","o","r","e">>],
       [iso |-> <<"e","s">>, name |-> <<"S","p","a","i","n">>],
       [iso |-> <<"i","d">>, name |-> <<"I","n","d","o","n","e","s","i","a">>],
       [iso |-> <<"c","n">>, name |-> <<"C","h","i","n","a">>] >>

MUMBAI_INDIA == <<"M","u","m","b","a","i",","," ","I","n","d","i","a">>

BERLIN_GERMANY == <<"B","e","r","l","i","n",","," ","G","e","r","m","a","n","y">>

NEW_YORK_USA == <<"N","e","w"," ","Y","o","r","k",","," ","N","Y",","," ","U","S","A">>

\* the location strings of the calls: absent, empty, strings that name no
\* place, and strings with a city, a subdivision code or a country keyword
SAMPLE_LOCATIONS ==
    { Undefined, <<>>, <<"R","e","m","o","t","e">>, <<"A","n","y","w","h","e","r","e">>,
      <<"B","a","n","g","a","l","o","r","e",","," ","I","n","d","i","a">>,
      <<"A","u","s","t","i","n",","," ","T","X">>,
      <<"L","o","n","d","o","n",","," ","U","K">>,
      MUMBAI_INDIA, BERLIN_GERMANY, NEW_YORK_USA }

\* the calls of the model: every target country of the tables with every
\* combination of the sample values
Probes ==
    [targetCountryIso : DOMAIN COUNTRY_STATE_CODES,
     location : SAMPLE_LOCATIONS,
     city : {Undefined, <<"P","u","n","e">>, <<"T","o","r","o","n","t","o">>},
     state : {Undefined, <<"K","A">>, <<"O","N">>},
     country : {Undefined, <<>>}
               \cup {SAMPLE_COUNTRIES[i].name : i \in DOMAIN SAMPLE_COUNTRIES}
               \cup {ToUpperCase(SAMPLE_COUNTRIES[i].iso) : i \in DOMAIN SAMPLE_COUNTRIES},
     verdict : {"none"}]

\* isLocationInCountry is called with the arguments of the probe and
\* returns, or throws
Classify ==
    /\ probe.verdict = "none"
    /\ probe' = [probe EXCEPT !.verdict =
                    IF isLocationInCountryThrows(probe.targetCountryIso, probe.location,
                                                 probe.city, probe.state, probe.country)
                    THEN "threw"
                    ELSE IF isLocationInCountry(probe.targetCountryIso, probe.location,
                                                probe.city, probe.state, probe.country)
                    THEN "true" ELSE "false"]
    /\ UNCHANGED <<apiKey, catalog, apiJobsLeft, apiFaultsLeft, fetchVars, orchVars>>

InitClassify ==
    /\ InitOrch
    /\ probe \in Probes
    /\ dbFaultsLeft = 0
    /\ apiKey = TRUE
    /\ catalog = {}
    /\ apiJobsLeft = 0
    /\ apiFaultsLeft = 0
    /\ fparams = [r \in Runs |-> Undefined]
    /\ fpc = [r \in Runs |-> "idle"]
    /\ page = [r \in Runs |-> 0]
    /\ retryCount = [r \in Runs |-> 0]
    /\ jobs = [r \in Runs |-> <<>>]
    /\ result = [r \in Runs |-> <<>>]
    /\ fallback = [r \in Runs |-> NoDraw]
    /\ retSite = [r \in Runs |-> "none"]
    /\ reqLog = [r \in Runs |-> <<>>]
    /\ pagesSeen = [r \in Runs |-> <<>>]
    /\ lastAnswer = [r \in Runs |-> NoAnswer]

SpecClassify == InitClassify /\ [][Classify]_vars

-----------------------------------------------------------------------------
(* Specification of one direct call of parseJobData                         *)

NoFields == [name \in {} |-> Undefined]

TITLE_INITECH == <<"B","a","c","k","e","n","d"," ","E","n","g","i","n","e","e","r"," ","a","t"," ","I","n","i","t","e","c","h">>

TITLE_ACME_CORP == <<"B","a","c","k","e","n","d"," ","E","n","g","i","n","e","e","r"," ","a","t"," ","A","c","m","e"," ","C","o","r","p">>

TITLE_COMBAT == <<"C","o","m","b","a","t"," ","D","e","s","i","g","n","e","r"," ","a","t"," ","I","n","i","t","e","c","h">>

\* the title of the raw job: absent, with and without a company, a number
SAMPLE_TITLES ==
    { NoFields, [job_title |-> TITLE_INITECH], [job_title |-> TITLE_ACME_CORP],
      [job_title |-> TITLE_COMBAT], [job_title |-> TEXT_QA], [job_title |-> Num(7)] }

\* the direct company fields: none, a valid name, a name the validation
\* rejects, a name in a later candidate field, a lone quote
SAMPLE_EMPLOYERS ==
    { NoFields, [employer_name |-> <<"G","l","o","b","e","x">>], [employer_name |-> <<"t","e","s","t"," ","c","o">>],
      [employer_name |-> Num(42), company |-> <<"H","o","o","l","i">>], [employer_name |-> <<"'">>] }

\* the location fields: none, dedicated fields, a combined string with
\* three parts, with one part, the string 'Remote', a number, a country only
SAMPLE_PLACES ==
    { NoFields,
      [job_city |-> <<"P","u","n","e">>, job_state |-> <<"M","H">>, job_country |-> <<"I","N">>],
      [job_location |-> <<"A","u","s","t","i","n",","," ","T","X",","," ","U","S">>],
      [job_location |-> <<"P","u","n","e">>],
      [job_location |-> <<"R","e","m","o","t","e">>],
      [job_location |-> Num(5)],
      [job_city |-> Num(5), job_location |-> Num(5)],
      [country |-> <<"I","N">>] }

LINK_EXAMPLE == <<"h","t","t","p","s",":","/","/","j","o","b","s",".","e","x","a","m","p","l","e",".","c","o","m","/","1">>

LINK_ACME == <<"h","t","t","p","s",":","/","/","a","c","m","e",".","i","o","/","j","/","1">>

\* the link fields: none, a placeholder link, a real link in the first
\* field, a real link in a later field behind an empty one, a number
SAMPLE_LINKS ==
    { NoFields, [job_apply_link |-> LINK_EXAMPLE], [job_apply_link |-> LINK_ACME],
      [job_apply_link |-> <<>>, job_url |-> LINK_ACME],
      [apply_link |-> LINK_EXAMPLE, link |-> LINK_ACME],
      [job_apply_link |-> Num(9)] }

\* the description: absent, one that names a company, a number
SAMPLE_DESCRIPTIONS ==
    { NoFields, [job_description |-> <<"A","b","o","u","t"," ","I","n","i","t","r","o","d","e","."," ","W","e"," ","h","i","r","e">>], [job_description |-> Num(3)] }

\* the arguments of the calls: null, and every raw job put together from one
\* choice of each group of fields
RawJobs ==
    {Null} \cup
    { t @@ e @@ p @@ l @@ d : t \in SAMPLE_TITLES, e \in SAMPLE_EMPLOYERS, p \in SAMPLE_PLACES,
                              l \in SAMPLE_LINKS, d \in SAMPLE_DESCRIPTIONS }

\* parseJobData is called with the raw job of the probe and returns
Parse ==
    /\ probe.verdict = "unparsed"
    /\ probe' = [probe EXCEPT !.verdict = "parsed", !.parsed = parseJobData(probe.jobData)]
    /\ UNCHANGED <<apiKey, catalog, apiJobsLeft, apiFaultsLeft, fetchVars, orchVars>>

InitParse ==
    /\ InitOrch
    /\ probe \in [jobData : RawJobs, verdict : {"unparsed"}, parsed : {Null}]
    /\ dbFaultsLeft = 0
    /\ apiKey = TRUE
    /\ catalog = {}
    /\ apiJobsLeft = 0
    /\ apiFaultsLeft = 0
    /\ fparams = [r \in Runs |-> Undefined]
    /\ fpc = [r \in Runs |-> "idle"]
    /\ page = [r \in Runs |-> 0]
    /\ retryCount = [r \in Runs |-> 0]
    /\ jobs = [r \in Runs |-> <<>>]
    /\ result = [r \in Runs |-> <<>>]
    /\ fallback = [r \in Runs |-> NoDraw]
    /\ retSite = [r \in Runs |-> "none"]
    /\ reqLog = [r \in Runs |-> <<>>]
    /\ pagesSeen = [r \in Runs |-> <<>>]
    /\ lastAnswer = [r \in Runs |-> NoAnswer]

SpecParse == InitParse /\ [][Parse]_vars

-----------------------------------------------------------------------------
(* Properties of searchJobs, checked under SpecFetch                        *)

\* the indexes of the requests the call issued for page p
AttemptsOn(r, p) == {i \in DOMAIN reqLog[r] : reqLog[r][i].page = p}

\* the pages the call requested
PagesRequested(r) == {reqLog[r][i].page : i \in DOMAIN reqLog[r]}

\* every request for page p failed, and there was one
AllFailed(r, p) ==
    /\ AttemptsOn(r, p) # {}
    /\ \A i \in AttemptsOn(r, p) : reqLog[r][i].outcome = "failed"

\* the call is between two attempts of makeRequestWithRetry, or in one
InRequest(r) == fpc[r] \in {"rate_delay", "in_flight", "backoff"}

\* no request of the call failed
NoFailures(r) == \A i \in DOMAIN reqLog[r] : reqLog[r][i].outcome = "ok"

\* the jobs the classifier accepts from a sequence of pages, in order
RECURSIVE AcceptedFrom(_, _, _)
AcceptedFrom(pages, country, acc) ==
    IF pages = <<>> THEN acc
    ELSE AcceptedFrom(Tail(pages), country, FilterPage(Head(pages), country, acc).jobs)

\* the pages handed to the loop are n >= 1 non-empty ones, n < numPages,
\* and then an empty one
StopsAtEmptyPage(r) ==
    /\ Len(pagesSeen[r]) >= 2
    /\ Len(pagesSeen[r]) - 1 < NumPagesOf(fparams[r])
    /\ pagesSeen[r][Len(pagesSeen[r])] = <<>>
    /\ \A i \in 1..(Len(pagesSeen[r]) - 1) : pagesSeen[r][i] # <<>>

InTargetCountry(r, job) ==
    isLocationInCountry(fparams[r].country, Prop(job, "location"), Prop(job, "city"),
                        Prop(job, "state"), Prop(job, "country"))

\* C1: with an API key and no failed request, when pages 1..n (n < numPages)
\* are non-empty and page n+1 is empty, exactly the pages 1..n+1 are requested,
\* once each, and the call returns the jobs the classifier accepted from
\* pages 1..n.
C1_PaginationStop ==
    \A r \in Runs :
        (fpc[r] = "returned" /\ apiKey /\ NoFailures(r) /\ StopsAtEmptyPage(r))
        => /\ [i \in DOMAIN reqLog[r] |-> reqLog[r][i].page]
                = [i \in 1..Len(pagesSeen[r]) |-> i]
           /\ ReturnedJobs(r)
                = AcceptedFrom(SubSeq(pagesSeen[r], 1, Len(pagesSeen[r]) - 1),
                               CountryOf(fparams[r]), <<>>)

\* C2: when every request for page 1 has failed and the retries are over,
\* the call has returned (no error surfaces), it has requested no other page,
\* and it returned a non-empty list of generator-produced jobs that all carry
\* the source label 'Fallback Data'.
C2_FallbackTrigger ==
    \A r \in Runs :
        (apiKey /\ AllFailed(r, 1) /\ ~InRequest(r))
        => /\ fpc[r] = "returned"
           /\ retSite[r] = "first_page_failed"
           /\ \A i \in DOMAIN reqLog[r] : reqLog[r][i].page = 1
           /\ Len(ReturnedJobs(r)) > 0
           /\ \A i \in DOMAIN ReturnedJobs(r) : ReturnedJobs(r)[i].source = FALLBACK_SOURCE

\* a call whose page 1 failed maxRetries + 1 times and that returned the
\* generator's jobs
C2_Witness ==
    \E r \in Runs :
        /\ apiKey /\ fpc[r] = "returned" /\ retSite[r] = "first_page_failed"
        /\ AllFailed(r, 1)
        /\ Len(reqLog[r]) = maxRetries + 1

\* a request that succeeded is the last one for its page
SuccessEndsPage(r) ==
    \A i, j \in DOMAIN reqLog[r] :
        (i < j /\ reqLog[r][i].outcome = "ok") => reqLog[r][j].page # reqLog[r][i].page

C4_LaterPageFailure ==
    \A r \in Runs : \A k \in PagesRequested(r) :
        (fpc[r] = "returned" /\ k > 1 /\ AllFailed(r, k))
        => /\ \A i \in DOMAIN reqLog[r] : reqLog[r][i].page <= k
           /\ ReturnedJobs(r) = AcceptedFrom(pagesSeen[r], CountryOf(fparams[r]), <<>>)

\* C5: on every return of searchJobs, every returned job is in the
\* target country according to isLocationInCountry.
C5_OutputFiltered ==
    \A r \in Runs :
        fpc[r] = "returned"
        => \A i \in DOMAIN ReturnedJobs(r) : InTargetCountry(r, ReturnedJobs(r)[i])

\* C6: the call returns generator-produced jobs only if the API key is
\* missing or every attempt of the first page's request failed; with every
\* request successful the result holds no synthetic job.
C6_SyntheticOnlyWhenUnavailable ==
    \A r \in Runs :
        (fpc[r] = "returned" /\ retSite[r] \in FallbackSites)
        => (~apiKey \/ AllFailed(r, 1))

-----------------------------------------------------------------------------
(* Properties of the orchestrator, checked under SpecRun                    *)

\* the run r has left the bucket loop
LoopOver(r) ==
    run[r].pc \in {"final_update", "audit_done", "verify_count", "verify_find", "verify_audit",
                   "catch_update", "catch_audit", "done", "crashed"}

\* the saves of the job k by the run r that were counted as how
SavedAs(r, k, how) ==
    {i \in DOMAIN trace[r].saved : trace[r].saved[i].job = k /\ trace[r].saved[i].how = how}

\* the jobs the run r has saved
SavedKeys(r) == {trace[r].saved[i].job : i \in DOMAIN trace[r].saved}

\* the stored records of the job k
StoredAs(k) == {i \in DOMAIN jobStore : JobKey(jobStore[i]) = k}

\* the elements of a list
Range(list) == {list[i] : i \in DOMAIN list}

\* the names of the buckets of the run r whose fetch threw
ThrownBuckets(r) == {run[r].buckets[b] : b \in trace[r].fetchThrew}

\* the session of the run r as the final update has just written it
JustFinalized(r) == run[r].pc = "audit_done"

\* C7: a job (title, company name, location) saved by the first run and, after
\* the first run has ended, by the second run has exactly one stored record;
\* the first run counted it as new once, the second run counted it as updated
\* and never as new; the counters a run reports, newJobsAdded and jobsUpdated,
\* are the numbers of its saves counted as new and as updated, and the final
\* update writes them to the session
C7_IdempotentIngestion ==
    /\ \A k \in SavedKeys(1) \cap SavedKeys(2) :
          /\ Cardinality(StoredAs(k)) = 1
          /\ Cardinality(SavedAs(1, k, "new")) = 1
          /\ SavedAs(2, k, "new") = {}
          /\ SavedAs(2, k, "updated") # {}
    /\ \A r \in Runs :
          /\ LoopOver(r) =>
                /\ run[r].newJobsAdded
                     = Cardinality({i \in DOMAIN trace[r].saved : trace[r].saved[i].how = "new"})
                /\ run[r].jobsUpdated
                     = Cardinality({i \in DOMAIN trace[r].saved : trace[r].saved[i].how = "updated"})
          /\ JustFinalized(r) =>
                /\ sessions[r].newJobsAdded = run[r].newJobsAdded
                /\ sessions[r].jobsUpdated = run[r].jobsUpdated

\* both runs have saved the same job and the second run's session is
\* finalized with that job among its updates and no new job
C7_Witness ==
    /\ SavedKeys(1) \cap SavedKeys(2) # {}
    /\ JustFinalized(2)
    /\ sessions[2].jobsUpdated >= 1
    /\ sessions[2].newJobsAdded = 0
    /\ sessions[1].newJobsAdded >= 1

\* C8: a bucket whose fetch threw is in bucketsFailed and not in
\* bucketsCompleted, in the run and in the session the final update writes;
\* in a run over 3 buckets where only the fetch of bucket 2 threw, the final
\* update writes status 'partial', bucketsCompleted = [bucket1, bucket3] and
\* bucketsFailed = [bucket2]
C8_PartialFailureSession ==
    \A r \in Runs :
        /\ ThrownBuckets(r) \subseteq Range(run[r].bucketsFailed)
        /\ ThrownBuckets(r) \cap Range(run[r].bucketsCompleted) = {}
        /\ JustFinalized(r) =>
              /\ ThrownBuckets(r) \subseteq Range(sessions[r].bucketsFailed)
              /\ ThrownBuckets(r) \cap Range(sessions[r].bucketsCompleted) = {}
        /\ JustFinalized(r) /\ Len(run[r].buckets) = 3 /\ trace[r].fetchThrew = {2} =>
              /\ sessions[r].status = "partial"
              /\ sessions[r].bucketsCompleted = <<run[r].buckets[1], run[r].buckets[3]>>
              /\ sessions[r].bucketsFailed = <<run[r].buckets[2]>>

\* a run over 3 buckets, the fetch of bucket 2 alone threw, and the final
\* update has written the session
C8_Witness ==
    \E r \in Runs :
        /\ JustFinalized(r)
        /\ Len(run[r].buckets) = 3
        /\ trace[r].fetchThrew = {2}
        /\ sessions[r].status = "partial"

\* 'failed' is in the session only by the catch that surrounds the bucket
\* loop and the steps after it, never by a bucket's failure
FailedOnlyOutsideBuckets ==
    \A r \in Runs :
        /\ sessions[r].exists /\ sessions[r].status = "failed" =>
              run[r].pc \in {"catch_audit", "done", "crashed"}
        /\ \A i \in DOMAIN trace[r].statusWrites :
              trace[r].statusWrites[i].status = "failed" => trace[r].statusWrites[i].by = "catch"

\* C9: after the bucket loop the final update writes 'completed' if and only
\* if no bucket failed, and 'partial' if and only if at least one bucket
\* failed and at least one bucket succeeded; 'failed' is written only outside
\* the per-bucket try
C9_FinalStatusRule ==
    /\ \A r \in Runs : JustFinalized(r) =>
          /\ sessions[r].status = "completed" <=> sessions[r].bucketsFailed = <<>>
          /\ sessions[r].status = "partial" <=>
                sessions[r].bucketsFailed # <<>> /\ sessions[r].bucketsCompleted # <<>>
    /\ FailedOnlyOutsideBuckets

\* C9 as the code has it: after the bucket loop the final update writes
\* 'completed' if and only if no bucket failed and 'partial' if and only if
\* at least one bucket failed, whether or not a bucket succeeded; 'failed' is
\* written only outside the per-bucket try
C9_FinalStatusRuleAmended ==
    /\ \A r \in Runs : JustFinalized(r) =>
          /\ sessions[r].status \in {"completed", "partial"}
          /\ sessions[r].status = "completed" <=> sessions[r].bucketsFailed = <<>>
          /\ sessions[r].status = "partial" <=> sessions[r].bucketsFailed # <<>>
    /\ FailedOnlyOutsideBuckets

\* every bucket of a run failed and the final update wrote 'partial'
C9_Witness ==
    \E r \in Runs :
        /\ JustFinalized(r)
        /\ sessions[r].bucketsCompleted = <<>>
        /\ sessions[r].bucketsFailed # <<>>
        /\ sessions[r].status = "partial"

\* C10: a session starts 'in_progress', and once its status is one of
\* completed, partial and failed no step changes the status again
C10_FinalizedOnce ==
    /\ \A r \in Runs :
          trace[r].statusWrites # <<>> => trace[r].statusWrites[1].status = "in_progress"
    /\ \A r \in Runs : \A i \in DOMAIN trace[r].statusWrites :
          trace[r].statusWrites[i].status \in {"completed", "partial", "failed"} =>
              i = Len(trace[r].statusWrites)

\* the run r is inside the bucket loop, at the call of searchJobs for a
\* bucket after the first
BetweenBuckets(r) == run[r].pc = "await_fetch" /\ run[r].bucket > 1

\* C11: when a bucket has finished and the next one starts, the session
\* document holds the buckets completed and failed so far and the counters of
\* the buckets processed so far (the call of the bucket that starts is
\* already in the run's totalApiCalls)
C11_IncrementalBookkeeping ==
    \A r \in Runs : BetweenBuckets(r) =>
        /\ sessions[r].bucketsCompleted = run[r].bucketsCompleted
        /\ sessions[r].bucketsFailed = run[r].bucketsFailed
        /\ sessions[r].totalApiCalls = run[r].totalApiCalls - 1
        /\ sessions[r].totalJobsFound = run[r].totalJobsFound
        /\ sessions[r].countryJobsFound = run[r].countryJobsFound
        /\ sessions[r].newJobsAdded = run[r].newJobsAdded
        /\ sessions[r].jobsUpdated = run[r].jobsUpdated

\* the run r issues a call of searchJobs in this step
CallIssued(r) == fpc[r] # "called" /\ fpc'[r] = "called"

\* C12: the calls of searchJobs of a run are for the buckets of the list in
\* list order, one call per bucket, whatever happened to the buckets before:
\* the first call is for bucket 1, each later call for the bucket after the
\* one before, the loop is left only after the last bucket, and the catch
\* around the loop is entered only from the steps after the loop
C12_EveryBucketOnce ==
    [][\A r \in Runs :
          /\ CallIssued(r) =>
                /\ run'[r].bucket = IF run[r].pc = "background" THEN 1 ELSE run[r].bucket + 1
                /\ run'[r].bucket \in DOMAIN run'[r].buckets
                /\ fparams'[r].query = run'[r].buckets[run'[r].bucket]
                /\ run'[r].totalApiCalls = run'[r].bucket
          /\ run[r].pc # "final_update" /\ run'[r].pc = "final_update" =>
                /\ run'[r].bucket = Len(run'[r].buckets) + 1
                /\ Len(run'[r].bucketsCompleted) + Len(run'[r].bucketsFailed)
                     = Len(run'[r].buckets)
                /\ Range(run'[r].bucketsCompleted) \cup Range(run'[r].bucketsFailed)
                     = Range(run'[r].buckets)
          /\ run[r].pc # "catch_update" /\ run'[r].pc = "catch_update" =>
                run[r].pc \in {"final_update", "audit_done"}]_vars

\* a run over 3 buckets whose first bucket failed has made its 3 calls and
\* left the loop
C12_Witness ==
    \E r \in Runs :
        /\ run[r].pc = "final_update"
        /\ Len(run[r].buckets) = 3
        /\ run[r].bucketsFailed # <<>>
        /\ run[r].bucketsFailed[1] = run[r].buckets[1]
        /\ run[r].totalApiCalls = 3

\* the positions of a run inside saveJobsToDatabase
SavePositions == {"company_find", "company_create", "job_find", "job_write"}

\* the run r sends a request to the API in this step
RequestIssued(r) == Len(reqLog'[r]) > Len(reqLog[r])

C13_PageWitness ==
    \E r \in Runs : fpc[r] = "in_flight" /\ page[r] = 2 /\ Len(pagesSeen[r]) = 1

\* C14: the background work of a run (its first bucket, its first call of
\* searchJobs) starts only after the session was created 'in_progress' and
\* the response with the sessionId was sent; at the moment the response is
\* out no call has been issued and nothing has been counted
C14_DetachedExecution ==
    \A r \in Runs :
        /\ run[r].bucket > 0 \/ fpc[r] # "idle" =>
              /\ trace[r].response = "json"
              /\ sessions[r].exists
              /\ trace[r].statusWrites[1] = [status |-> "in_progress", by |-> "create"]
        /\ trace[r].response = "json" => sessions[r].exists
        /\ run[r].pc = "background" =>
              /\ trace[r].response = "json"
              /\ sessions[r].status = "in_progress"
              /\ fpc[r] = "idle"
              /\ run[r].totalApiCalls = 0

\* a run awaits its first call of searchJobs, the response already sent
C14_Witness ==
    \E r \in Runs :
        /\ run[r].pc = "await_fetch"
        /\ run[r].bucket = 1
        /\ fpc[r] = "called"
        /\ trace[r].response = "json"
        /\ sessions[r].status = "in_progress"

\* the run r failed outside the per-bucket try: in the handler before the
\* response (the outer catch answered 500), or in the background work after
\* the bucket loop (catch (err) was entered)
FailedOutsideBuckets(r) ==
    \/ run[r].pc \in {"error", "catch_audit", "crashed"}
    \/ run[r].pc = "done" /\ auditLog[r][Len(auditLog[r])].action = "scrape_failed"

\* C15: a run that failed outside the per-bucket try has a session document
\* with status 'failed' and an errorMessage
C15_OrchestrationFailure ==
    \A r \in Runs : FailedOutsideBuckets(r) =>
        /\ sessions[r].exists
        /\ sessions[r].status = "failed"
        /\ sessions[r].errorMessage # Undefined

\* C16: no rejection leaves the background task of a run
C16_NoErrorEscapes == \A r \in Runs : run[r].pc # "crashed"

\* C17: a poll for an existing session answers with progress equal to
\* 100 * |bucketsCompleted| / |bucketsRequested|, between 0 and 100; a poll
\* for a sessionId without a session answers 404 with no snapshot
C17_ProgressReporting ==
    \A id \in Runs \cup {0} :
        \E answer \in {getScrapingStatus(id, TRUE)} :
            IF id \in Runs /\ sessions[id].exists
            THEN /\ answer.code = 200
                 /\ answer.progress[1] * Len(sessions[id].bucketsRequested)
                      = 100 * Len(sessions[id].bucketsCompleted) * answer.progress[2]
                 /\ 0 <= answer.progress[1]
                 /\ answer.progress[1] <= 100 * answer.progress[2]
            ELSE answer.code = 404 /\ DOMAIN answer = {"code"}

\* a finalized session with some but not all of its buckets completed, and
\* a sessionId without a session
C17_Witness ==
    /\ \E r \in Runs :
          /\ sessions[r].exists
          /\ sessions[r].status = "partial"
          /\ sessions[r].bucketsCompleted # <<>>
          /\ getScrapingStatus(r, TRUE).progress = <<200, 3>>
    /\ getScrapingStatus(0, TRUE).code = 404

\* the positions of a run inside verifyScrapedJobsInDatabase
VerifyPositions == {"verify_count", "verify_find", "verify_audit"}

-----------------------------------------------------------------------------
(* Properties of isLocationInCountry, checked under SpecClassify            *)

\* the codes of the sample countries that the value names, by name or by
\* code, whatever its case
CountriesNamedBy(value) ==
    {SAMPLE_COUNTRIES[i].iso : i \in
        {k \in DOMAIN SAMPLE_COUNTRIES :
            ToLowerCase(value) \in {SAMPLE_COUNTRIES[k].iso, ToLowerCase(SAMPLE_COUNTRIES[k].name)}}}

\* the call has an explicit country value that names another country than
\* the target
NamesAnotherCountry ==
    /\ Truthy(probe.country)
    /\ CountriesNamedBy(probe.country) # {}
    /\ probe.targetCountryIso \notin CountriesNamedBy(probe.country)

\* C19: a call whose explicit country names another country than the target
\* returns false, whatever location, city and state are
C19_ExplicitCountryShortCircuit ==
    probe.verdict \notin {"idle", "none"} /\ NamesAnotherCountry => probe.verdict = "false"

\* a call for 'in' with country 'United States' whose location, city and
\* state all say India has returned false
C19_Witness ==
    /\ probe.targetCountryIso = COUNTRY_IN
    /\ probe.country = UNITED_STATES
    /\ probe.location = <<"B","a","n","g","a","l","o","r","e",","," ","I","n","d","i","a">>
    /\ probe.city = <<"P","u","n","e">>
    /\ probe.state = <<"K","A">>
    /\ probe.verdict = "false"

\* the call carries no city, state or country and a location that is
\* absent, empty or names no place
NoLocationSignal ==
    /\ ~Truthy(probe.city) /\ ~Truthy(probe.state) /\ ~Truthy(probe.country)
    /\ probe.location \in {Undefined, <<>>, <<"R","e","m","o","t","e">>,
                            <<"A","n","y","w","h","e","r","e">>}

\* C20: a call without any city, state or country signal returns false for
\* every target country
C20_AmbiguousDataExcluded ==
    probe.verdict \notin {"idle", "none"} /\ NoLocationSignal => probe.verdict = "false"

\* the call is for 'us' with a location string only
UsLocationOnly ==
    /\ probe.targetCountryIso = COUNTRY_US
    /\ probe.city = Undefined /\ probe.state = Undefined /\ probe.country = Undefined

\* C21: for 'us' and a location string alone, a location whose only country
\* signal is a city and a country outside the US ('Mumbai, India',
\* 'Berlin, Germany') returns false and 'New York, NY, USA' returns true
C21_UsClassification ==
    probe.verdict \notin {"idle", "none"} /\ UsLocationOnly =>
        /\ probe.location \in {MUMBAI_INDIA, BERLIN_GERMANY} => probe.verdict = "false"
        /\ probe.location = NEW_YORK_USA => probe.verdict = "true"

-----------------------------------------------------------------------------
(* Properties of parseJobData, checked under SpecParse                      *)

\* C22: parseJobData returns null only for a null input: every raw job
\* object, whatever the types of its fields, gives a canonical record
C22_NullOnlyForNullInput ==
    probe.verdict = "parsed" /\ probe.jobData # Null => probe.parsed # Null

\* the call returned a canonical record
Parsed == probe.verdict = "parsed" /\ probe.parsed # Null

REMOTE == <<"R","e","m","o","t","e">>

\* the text of the non-empty ones of the parts, joined by ', '
RECURSIVE PartsJoined(_)
PartsJoined(parts) ==
    IF parts = <<>> THEN <<>>
    ELSE IF Head(parts) = <<>> THEN PartsJoined(Tail(parts))
    ELSE IF PartsJoined(Tail(parts)) = <<>> THEN AsText(Head(parts))
    ELSE AsText(Head(parts)) \o <<",", " ">> \o PartsJoined(Tail(parts))

AllPartsEmpty(job) == job.city = <<>> /\ job.state = <<>> /\ job.country = <<>>

\* C23 as stated: the location of a canonical record is a non-empty string,
\* the non-empty city, state and country joined by ', ', and it is 'Remote'
\* exactly when all three parts are empty
C23_LocationInvariant ==
    Parsed =>
        /\ IsString(probe.parsed.location) /\ probe.parsed.location # <<>>
        /\ ~AllPartsEmpty(probe.parsed) =>
              probe.parsed.location = PartsJoined(<<probe.parsed.city, probe.parsed.state,
                                                    probe.parsed.country>>)
        /\ probe.parsed.location = REMOTE <=> AllPartsEmpty(probe.parsed)

\* C23 amended: the location of a canonical record is a non-empty string:
\* 'Remote' when all three parts are empty, else the non-empty city, state
\* and country joined by ', ' (which is 'Remote' when that is the only part)
C23_LocationInvariantAmended ==
    Parsed =>
        /\ IsString(probe.parsed.location) /\ probe.parsed.location # <<>>
        /\ probe.parsed.location =
              IF AllPartsEmpty(probe.parsed) THEN REMOTE
              ELSE PartsJoined(<<probe.parsed.city, probe.parsed.state, probe.parsed.country>>)

\* a record whose parts come from a combined location string, and one
\* without any part
C23_Witness ==
    /\ Parsed
    /\ \/ /\ probe.parsed.city = <<"A","u","s","t","i","n">>
          /\ probe.parsed.location = <<"A","u","s","t","i","n",","," ","T","X",","," ","U","S">>
          /\ "job_city" \notin DOMAIN probe.jobData
       \/ AllPartsEmpty(probe.parsed) /\ probe.parsed.location = REMOTE

URL_FIELDS == <<"job_apply_link", "apply_link", "job_url", "google_link", "link">>

\* the first non-empty value of the ordered URL fields, '' when there is none
FirstNonEmptyLink(jobData) ==
    LET hits == {k \in 1..Len(URL_FIELDS) :
                    URL_FIELDS[k] \in DOMAIN jobData /\ jobData[URL_FIELDS[k]] # <<>>}
    IN  IF hits = {} THEN <<>>
        ELSE jobData[URL_FIELDS[CHOOSE k \in hits : \A m \in hits : k <= m]]

\* C24: the source of a canonical record is 'JSearch API' if and only if the
\* first non-empty URL field is non-empty and does not contain 'example.com',
\* and 'Fallback Data' otherwise
C24_SourceLabelRule ==
    Parsed =>
        \E url \in {FirstNonEmptyLink(probe.jobData)} :
            /\ probe.parsed.source \in {API_SOURCE, FALLBACK_SOURCE}
            /\ probe.parsed.source = API_SOURCE <=>
                  (url # <<>> /\ ~Includes(url, EXAMPLE_DOMAIN))

\* a record labelled 'JSearch API' for a link found behind an empty first
\* field, and one labelled 'Fallback Data' for a placeholder link although
\* a later field holds a real one
C24_Witness ==
    /\ Parsed
    /\ \/ /\ Field(probe.jobData, "job_apply_link") = <<>>
          /\ Field(probe.jobData, "job_url") = LINK_ACME
          /\ probe.parsed.source = API_SOURCE
       \/ /\ Field(probe.jobData, "apply_link") = LINK_EXAMPLE
          /\ Field(probe.jobData, "link") = LINK_ACME
          /\ probe.parsed.source = FALLBACK_SOURCE

\* the sample titles of the form '<role> at <Name>', with their name
TitleForms ==
    { [title |-> TITLE_INITECH, name |-> <<"I","n","i","t","e","c","h">>],
      [title |-> TITLE_ACME_CORP, name |-> <<"A","c","m","e"," ","C","o","r","p">>],
      [title |-> TITLE_COMBAT, name |-> <<"I","n","i","t","e","c","h">>] }

\* C25: a raw job without a usable direct company field and with a title
\* '<role> at <Name>' gets company <Name>, and the company of every
\* canonical record is a non-empty string
C25_CompanyFromTitle ==
    Parsed =>
        /\ IsString(probe.parsed.company) /\ probe.parsed.company # <<>>
        /\ \A form \in TitleForms :
              DirectCompany(probe.jobData) = <<>> /\ Field(probe.jobData, "job_title") = form.title
                  => probe.parsed.company = form.name

-----------------------------------------------------------------------------
(* Further properties of searchJobs, checked under SpecFetch                *)

\* the processing of a page with jobs ended without a throw
PageProcessed(r) ==
    /\ fpc[r] = "in_flight"
    /\ Len(pagesSeen'[r]) > Len(pagesSeen[r])
    /\ pagesSeen'[r][Len(pagesSeen'[r])] # <<>>
    /\ fpc'[r] \notin {"returned", "threw"}

\* C26: every request, a retry included, is sent at the end of a rate-limit
\* delay; a retry waits for its backoff and then for the rate-limit delay;
\* after a page with jobs is processed the inter-page delay comes first and
\* the next page's request follows it after a rate-limit delay of its own
C26_RateLimitOrdering ==
    [][\A r \in Runs :
        /\ RequestIssued(r) => fpc[r] = "rate_delay" /\ fpc'[r] = "in_flight"
        /\ fpc[r] # "rate_delay" /\ fpc'[r] = "rate_delay" =>
              \/ fpc[r] = "called" /\ reqLog'[r] = <<>>
              \/ fpc[r] = "backoff" /\ retryCount'[r] = retryCount[r] + 1 /\ page'[r] = page[r]
              \/ fpc[r] = "page_delay" /\ page'[r] = page[r] + 1
        /\ fpc[r] = "in_flight" /\ fpc'[r] # "in_flight"
              /\ reqLog'[r][Len(reqLog'[r])].outcome = "failed" /\ fpc'[r] \notin {"returned", "threw"}
              => fpc'[r] = "backoff"
        /\ fpc[r] = "backoff" /\ fpc'[r] # "backoff" => fpc'[r] = "rate_delay"
        /\ PageProcessed(r) => fpc'[r] = "page_delay" /\ page'[r] = page[r]
        /\ fpc[r] = "page_delay" /\ fpc'[r] # "page_delay" => fpc'[r] \in {"rate_delay", "returned"}
    ]_vars

\* a call that retried a request after a failure and went on to page 2
C26_Witness ==
    \E r \in Runs : \E i \in 1..(Len(reqLog[r]) - 1) :
        /\ reqLog[r][i].outcome = "failed"
        /\ reqLog[r][i + 1].page = reqLog[r][i].page
        /\ \E k \in 1..Len(reqLog[r]) : reqLog[r][k].page = 2

\* the requests of the call are for page 1 first and then each for the page
\* of the request before it or for the next one
PagesInOrder(r) ==
    /\ reqLog[r] # <<>> => reqLog[r][1].page = 1
    /\ \A i \in 1..(Len(reqLog[r]) - 1) :
          reqLog[r][i + 1].page \in {reqLog[r][i].page, reqLog[r][i].page + 1}

\* every request of the call came back with a page that holds raw jobs
EveryPageNonEmpty(r) ==
    /\ NoFailures(r)
    /\ Len(pagesSeen[r]) = Len(reqLog[r])
    /\ \A i \in DOMAIN pagesSeen[r] : pagesSeen[r][i] # <<>>

\* C27 (the part about states): the pages are requested in the order 1, 2,
\* 3, ... without gaps, none above numPages, with at most
\* numPages * (maxRetries + 1) requests in all; a call that has returned
\* after only non-empty pages and no failed request has requested exactly
\* the pages 1..numPages
C27_PaginationOrdered ==
    \A r \in Runs : fpc[r] # "idle" =>
        /\ PagesInOrder(r)
        /\ \A i \in DOMAIN reqLog[r] : reqLog[r][i].page <= NumPagesOf(fparams[r])
        /\ Len(reqLog[r]) <= NumPagesOf(fparams[r]) * (maxRetries + 1)
        /\ fpc[r] = "returned" /\ apiKey /\ EveryPageNonEmpty(r) =>
              PagesRequested(r) = 1..NumPagesOf(fparams[r])

\* searchJobs with timers that elapse and requests that settle (the fetch
\* is given a timeout)
SpecFetchFair == SpecFetch /\ WF_vars(NextFetch)

\* C27 (the part about termination): every call of searchJobs returns
C27_Terminates == \A r \in Runs : fpc[r] = "called" ~> fpc[r] = "returned"

\* the request in flight is answered
Answered(r) == fpc[r] = "in_flight" /\ fpc'[r] # "in_flight"

\* C28: an answer whose status is not OK or whose body has a truthy error
\* field (or no answer at all) counts as a failed attempt: no page is handed
\* to the page loop and, while retries are left, the request is retried;
\* only an answer with an OK status and no error field is returned to the
\* page loop
C28_FailureResponses ==
    [][\A r \in Runs : Answered(r) =>
          /\ lastAnswer'[r].rejected \/ ~lastAnswer'[r].ok \/ lastAnswer'[r].error =>
                /\ reqLog'[r][Len(reqLog'[r])].outcome = "failed"
                /\ pagesSeen'[r] = pagesSeen[r] /\ jobs'[r] = jobs[r]
                /\ fpc'[r] # "page_delay"
                /\ retryCount[r] < maxRetries => fpc'[r] = "backoff"
          /\ reqLog'[r][Len(reqLog'[r])].outcome = "ok" =>
                ~lastAnswer'[r].rejected /\ lastAnswer'[r].ok /\ ~lastAnswer'[r].error]_vars

\* an answer with an OK status and a truthy error field was taken for a
\* failure and is being retried, and the retry is sent
C28_Witness ==
    \E r \in Runs :
        /\ lastAnswer[r] = [rejected |-> FALSE, ok |-> TRUE, error |-> TRUE]
        /\ Len(reqLog[r]) >= 2
        /\ reqLog[r][Len(reqLog[r]) - 1].outcome = "failed"
        /\ reqLog[r][Len(reqLog[r])] = [page |-> reqLog[r][Len(reqLog[r]) - 1].page,
                                        outcome |-> "pending"]

\* normalizing the raw job throws inside parseJobData
Malformed(job) == job # Null /\ parseJobDataThrows(job)

HasMalformed(apiJobs) == \E k \in DOMAIN apiJobs : Malformed(apiJobs[k])

WithoutMalformed(apiJobs) == SelectSeq(apiJobs, LAMBDA job : ~Malformed(job))

\* the raw job normalizes and classifying its record throws
ClassifierThrowsOn(job, country) ==
    /\ job # Null /\ ~parseJobDataThrows(job)
    /\ \E parsed \in {ParsedRecord(job)} :
          isLocationInCountryThrows(country, parsed.location, parsed.city, parsed.state,
                                    parsed.country)

\* a page is handed to the page loop
PageHanded(r) == fpc[r] = "in_flight" /\ Len(pagesSeen'[r]) > Len(pagesSeen[r])

\* C29: when normalizing a raw job of a page throws (and classifying the
\* others does not), the jobs accepted from the page are those accepted from
\* the page without that record, the request is not counted as failed and
\* not retried, and the call goes on to the inter-page delay and the next
\* page; a call that saw such a record and no failure returns synthetic jobs
\* only from the return for an empty result
C29_MalformedPayloadIsolation ==
    [][\A r \in Runs :
        /\ PageHanded(r) =>
            \E apiJobs \in {pagesSeen'[r][Len(pagesSeen'[r])]} :
                HasMalformed(apiJobs)
                /\ (\A k \in DOMAIN apiJobs :
                        ~ClassifierThrowsOn(apiJobs[k], CountryOf(fparams[r])))
                =>  /\ jobs'[r] = FilterPage(WithoutMalformed(apiJobs), CountryOf(fparams[r]),
                                             jobs[r]).jobs
                    /\ reqLog'[r][Len(reqLog'[r])].outcome = "ok"
                    /\ retryCount'[r] = retryCount[r] /\ page'[r] = page[r]
                    /\ fpc'[r] = "page_delay"
        /\ fpc[r] = "page_delay" /\ HasMalformed(pagesSeen[r][Len(pagesSeen[r])]) =>
              IF page[r] < NumPagesOf(fparams[r])
              THEN fpc'[r] = "rate_delay" /\ page'[r] = page[r] + 1
              ELSE fpc'[r] = "returned" /\ (retSite'[r] \in FallbackSites => jobs[r] = <<>>)
    ]_vars

\* the first page held a record that does not normalize next to a job of
\* the target country: that job was accepted and page 2 is requested
C29_Witness ==
    \E r \in Runs :
        /\ Len(pagesSeen[r]) = 1
        /\ pagesSeen[r][1] = <<RAW_MALFORMED, RAW_PUNE>>
        /\ Len(jobs[r]) = 1 /\ jobs[r][1].rawData = RAW_PUNE
        /\ fpc[r] = "in_flight" /\ page[r] = 2

-----------------------------------------------------------------------------
(* Further properties of the orchestrator, checked under SpecRun            *)

\* the stored records with the identity of the job: title, company, location
WithIdentity(store, jobData) ==
    {i \in DOMAIN store : <<store[i].title, store[i].company, store[i].location>> = JobKey(jobData)}

\* saveJobsToDatabase writes the job it is at
JobStored(r) == run[r].pc = "job_write" /\ jobStore' # jobStore

\* C30: when saveJobsToDatabase has written a job for session S, there is a
\* stored record with the job's identity and every such record carries
\* sessionId = S; an insert adds one record, with status 'published', and
\* only when no record had that identity; an update adds no record and
\* leaves the status of the record and all other records as they were
C30_SessionStamping ==
    [][\A r \in Runs : JobStored(r) =>
        \E jobData \in {Head(run[r].toSave)} :
            /\ WithIdentity(jobStore', jobData) # {}
            /\ \A i \in WithIdentity(jobStore', jobData) : jobStore'[i].sessionId = r
            /\ IF WithIdentity(jobStore, jobData) = {}
               THEN /\ Len(jobStore') = Len(jobStore) + 1
                    /\ SubSeq(jobStore', 1, Len(jobStore)) = jobStore
                    /\ WithIdentity(jobStore', jobData) = {Len(jobStore')}
                    /\ jobStore'[Len(jobStore')].status = "published"
               ELSE /\ Len(jobStore') = Len(jobStore)
                    /\ \A i \in DOMAIN jobStore :
                          /\ jobStore'[i].status = jobStore[i].status
                          /\ i \notin WithIdentity(jobStore, jobData) => jobStore'[i] = jobStore[i]
    ]_vars

\* a record that the first run inserted carries the id of the second run,
\* which updated it, and the store holds no second record of that identity
C30_Witness ==
    \E i \in DOMAIN jobStore :
        /\ jobStore[i].sessionId = 2
        /\ jobStore[i].status = "published"
        /\ \E k \in DOMAIN trace[1].saved :
              /\ trace[1].saved[k] = [job |-> <<jobStore[i].title, jobStore[i].company,
                                                jobStore[i].location>>, how |-> "new"]
        /\ \E k \in DOMAIN trace[2].saved :
              /\ trace[2].saved[k] = [job |-> <<jobStore[i].title, jobStore[i].company,
                                                jobStore[i].location>>, how |-> "updated"]
        /\ \A m \in DOMAIN jobStore :
              <<jobStore[m].title, jobStore[m].company, jobStore[m].location>>
                = <<jobStore[i].title, jobStore[i].company, jobStore[i].location>> => m = i

-----------------------------------------------------------------------------
(* The missing API key, checked under SpecFetch                             *)

\* the positions of a call in which it waits for a delay or for a response
InTransit == {"rate_delay", "in_flight", "backoff", "page_delay"}

\* C31: when no API key is configured, a call of searchJobs sends no request
\* and waits for no rate-limit delay (it is never at a delay or in a
\* request), it does not throw, and what it returns is the list of the
\* generator, returned from the missing-key branch: 20 to 49 jobs that all
\* carry the source label 'Fallback Data'
C31_MissingApiKey ==
    \A r \in Runs :
        (~apiKey /\ fpc[r] # "idle")
        => /\ reqLog[r] = <<>>
           /\ pagesSeen[r] = <<>>
           /\ fpc[r] \notin InTransit
           /\ fpc[r] \in {"called", "returned"}
           /\ fpc[r] = "returned"
                => /\ retSite[r] = "no_key"
                   /\ result[r] = <<>>
                   /\ Len(ReturnedJobs(r)) >= FALLBACK_MIN_COUNT
                   /\ \A i \in DOMAIN ReturnedJobs(r) :
                         ReturnedJobs(r)[i].source = FALLBACK_SOURCE

\* a call without a key has returned, with numPages > 0 asked for
C31_Witness ==
    \E r \in Runs :
        /\ ~apiKey /\ fpc[r] = "returned" /\ retSite[r] = "no_key"
        /\ fparams[r].numPages > 0
        /\ reqLog[r] = <<>>
        /\ Len(ReturnedJobs(r)) > 0

-----------------------------------------------------------------------------
(* Progress of a run, checked under SpecRunFair                             *)

\* a step of run r other than its trigger: an awaited operation settles.
\* The pending call of searchJobs is named by its throwing step alone: that
\* step and the returning step are enabled in the same states (the call is
\* pending) and each of them ends the call, so weak fairness of the one says
\* that the call settles in the end, by returning or by throwing
Settles(r) ==
    \/ run[r].pc # "idle" /\ RunStep(r)
    \/ StubFetchThrows(r)

\* the orchestrator with the first trigger only
NextFirstRun == RunStep(1) \/ StubFetchReturns(1) \/ StubFetchThrows(1)

\* every awaited operation of the triggered run settles in the end: database
\* operations resolve or reject, and searchJobs returns or throws
SpecRunFair == InitRun /\ [][NextFirstRun]_vars /\ WF_vars(Settles(1))

TerminalStatuses == {"completed", "partial", "failed"}

\* C32: a session record that exists with status 'in_progress' eventually
\* has one of the statuses completed, partial, failed, whichever database
\* and audit-log operations reject after the record was created
C32_SessionLeavesInProgress ==
    \A r \in Runs :
        (sessions[r].exists /\ sessions[r].status = "in_progress")
        ~> (sessions[r].exists /\ sessions[r].status \in TerminalStatuses)

-----------------------------------------------------------------------------
(* Overlapping runs: a second trigger while the first run is at work        *)

\* the database operations that may reject while two runs overlap
MaxOverlapDbFaults == 1

\* POST with one of the bodies: runCrawlers up to await ScrapeSession.create,
\* or its 400 answer; runCrawlers holds no lock and looks at no other
\* session, so a trigger does not wait for the run before it
TriggerOf(r, bodies) ==
    /\ run[r].pc = "idle"
    /\ \E req \in bodies :
        IF req.buckets = <<>>
        THEN /\ run' = [run EXCEPT ![r].pc = "rejected"]
             /\ trace' = [trace EXCEPT ![r].response = "400"]
        ELSE /\ run' = [run EXCEPT ![r] = Triggered(req)]
             /\ UNCHANGED trace
    /\ UNCHANGED <<storeVars, dbFaultsLeft, fpc, fparams, retVars, restVars>>

\* the second trigger at any time after the first (the bodies of the model
\* have at most one bucket here)
TriggerOverlapping(r) ==
    /\ \A s \in Runs : s < r => run[s].pc # "idle"
    /\ TriggerOf(r, {body \in Requests : Len(body.buckets) <= 1})

InitOverlap ==
    /\ InitOrch
    /\ probe = NoProbe
    /\ dbFaultsLeft = MaxOverlapDbFaults
    /\ apiKey = TRUE
    /\ catalog = {}
    /\ apiJobsLeft = 0
    /\ apiFaultsLeft = 0
    /\ fparams = [r \in Runs |-> Undefined]
    /\ fpc = [r \in Runs |-> "idle"]
    /\ page = [r \in Runs |-> 0]
    /\ retryCount = [r \in Runs |-> 0]
    /\ jobs = [r \in Runs |-> <<>>]
    /\ result = [r \in Runs |-> <<>>]
    /\ fallback = [r \in Runs |-> NoDraw]
    /\ retSite = [r \in Runs |-> "none"]
    /\ reqLog = [r \in Runs |-> <<>>]
    /\ pagesSeen = [r \in Runs |-> <<>>]
    /\ lastAnswer = [r \in Runs |-> NoAnswer]

NextOverlap ==
    \E r \in Runs :
        \/ TriggerOverlapping(r)
        \/ SessionCreated(r)
        \/ StartAudited(r)
        \/ BackgroundBegins(r)
        \/ FetchSettled(r)
        \/ CompanyFound(r)
        \/ CompanyCreated(r)
        \/ JobFound(r)
        \/ JobWritten(r)
        \/ FinalUpdated(r)
        \/ CompletionAudited(r)
        \/ VerifyStep(r)
        \/ CatchUpdated(r)
        \/ CatchAudited(r)
        \/ StubFetchReturns(r)
        \/ StubFetchThrows(r)

SpecOverlap == InitOverlap /\ [][NextOverlap]_vars

\* C33: the job store holds at most one record per identity (title,
\* companyId, location) and the company store at most one company per name,
\* also when two runs are interleaved
C33_IdentityUnique ==
    /\ \A i, j \in DOMAIN jobStore :
          (/\ jobStore[i].title = jobStore[j].title
           /\ jobStore[i].companyId = jobStore[j].companyId
           /\ jobStore[i].location = jobStore[j].location) => i = j
    /\ \A i, j \in DOMAIN companyStore : companyStore[i] = companyStore[j] => i = j

-----------------------------------------------------------------------------
(* The counters of saveJobsToDatabase and of the session                    *)

\* newCount + updatedCount of the call of saveJobsToDatabase the run is in,
\* or has last returned from
Counted(l) == l.newCount + l.updatedCount

\* the awaited operation of this step of run r rejected
Rejected(r) == run'[r] # run[r] /\ dbFaultsLeft' < dbFaultsLeft

\* the session was finalized by the update after the bucket loop
Finalized(doc) == doc.exists /\ doc.status \in {"completed", "partial"}

\* C34: in every step of a call of saveJobsToDatabase, a job whose save
\* throws is skipped (the counts and the job store stay, the loop goes on
\* with the next job), a job written without a throw adds exactly one to
\* newCount + updatedCount, and a step inside a job's iteration changes
\* neither count; so the counts are the saves of the call that did not
\* throw, and the return adds them to newJobsAdded and jobsUpdated. With the
\* filter enabled newJobsAdded + jobsUpdated <= countryJobsFound <=
\* totalJobsFound, in the run and in the finalized session
C34_CounterAccounting ==
    [][\A r \in Runs :
        /\ (run[r].pc \in SavePositions /\ run'[r] # run[r]) =>
              /\ Rejected(r) =>
                    /\ run'[r].toSave = Tail(run[r].toSave)
                    /\ Counted(run'[r]) = Counted(run[r])
                    /\ jobStore' = jobStore
              /\ (~Rejected(r) /\ run[r].pc = "job_write") =>
                    /\ run'[r].toSave = Tail(run[r].toSave)
                    /\ Counted(run'[r]) = Counted(run[r]) + 1
                    /\ Len(trace'[r].saved) = Len(trace[r].saved) + 1
              /\ (~Rejected(r) /\ run[r].pc # "job_write") =>
                    /\ run'[r].toSave = run[r].toSave
                    /\ Counted(run'[r]) = Counted(run[r])
                    /\ run'[r].pc \in SavePositions
              /\ run'[r].pc \in SavePositions =>
                    /\ run'[r].newJobsAdded = run[r].newJobsAdded
                    /\ run'[r].jobsUpdated = run[r].jobsUpdated
              /\ run'[r].pc \notin SavePositions =>
                    /\ run'[r].toSave = <<>>
                    /\ run'[r].newJobsAdded = run[r].newJobsAdded + run'[r].newCount
                    /\ run'[r].jobsUpdated = run[r].jobsUpdated + run'[r].updatedCount
        /\ run'[r].pc \in SavePositions =>
              /\ Counted(run'[r]) + run'[r].newJobsAdded + run'[r].jobsUpdated
                    = Len(trace'[r].saved)
              /\ run'[r].filterIndianJobs =>
                    Counted(run'[r]) + Len(run'[r].toSave) + run'[r].newJobsAdded
                        + run'[r].jobsUpdated <= run'[r].countryJobsFound
        /\ run'[r].filterIndianJobs =>
              /\ run'[r].newJobsAdded + run'[r].jobsUpdated <= run'[r].countryJobsFound
              /\ run'[r].countryJobsFound <= run'[r].totalJobsFound
        /\ (Finalized(sessions'[r]) /\ sessions'[r].filterIndianJobs) =>
              /\ sessions'[r].newJobsAdded + sessions'[r].jobsUpdated
                    <= sessions'[r].countryJobsFound
              /\ sessions'[r].countryJobsFound <= sessions'[r].totalJobsFound
    ]_vars

\* the first run, without the filter, was handed two jobs in one call: the
\* save of the first threw and the second was saved and counted; the second
\* run, with the filter, found two jobs, kept one and its save threw, and its
\* session is finalized
C34_Witness ==
    /\ ~run[1].filterIndianJobs /\ LoopOver(1)
    /\ run[1].totalJobsFound = 2
    /\ Counted(run[1]) = 1 /\ run[1].newJobsAdded = 1
    /\ Len(trace[1].saved) = 1
    /\ trace[1].saved[1].job = JobKey(Transform(parseJobData(RAW_AUSTIN)))
    /\ Finalized(sessions[2]) /\ sessions[2].filterIndianJobs
    /\ sessions[2].totalJobsFound = 2
    /\ sessions[2].countryJobsFound = 1
    /\ sessions[2].newJobsAdded + sessions[2].jobsUpdated = 0

-----------------------------------------------------------------------------
(* The two bucket lists of a session                                        *)

\* how often the list holds the element
Occurrences(list, x) == Cardinality({i \in DOMAIN list : list[i] = x})

\* the elements of `part` are elements of `list`, in the order of `list`
IsSubsequence(part, list) ==
    \E pos \in [DOMAIN part -> DOMAIN list] :
        /\ \A i \in DOMAIN part : list[pos[i]] = part[i]
        /\ \A i, j \in DOMAIN part : i < j => pos[i] < pos[j]

\* C35: in a session finalized as completed or partial, every occurrence of
\* a requested bucket is in exactly one of bucketsCompleted and bucketsFailed:
\* each bucket occurs in the two lists together as often as it was requested,
\* both lists keep the order of the request, their lengths add up to the
\* number of requested buckets, and with distinct bucket names no bucket is in
\* both; inside the loop the two lists hold the buckets before the current one
C35_BucketPartition ==
    \A r \in Runs :
        /\ Finalized(sessions[r]) =>
              /\ Len(sessions[r].bucketsCompleted) + Len(sessions[r].bucketsFailed)
                    = Len(sessions[r].bucketsRequested)
              /\ \A b \in Range(sessions[r].bucketsRequested)
                        \cup Range(sessions[r].bucketsCompleted)
                        \cup Range(sessions[r].bucketsFailed) :
                    Occurrences(sessions[r].bucketsCompleted, b)
                        + Occurrences(sessions[r].bucketsFailed, b)
                    = Occurrences(sessions[r].bucketsRequested, b)
              /\ IsSubsequence(sessions[r].bucketsCompleted, sessions[r].bucketsRequested)
              /\ IsSubsequence(sessions[r].bucketsFailed, sessions[r].bucketsRequested)
              /\ Range(sessions[r].bucketsCompleted) \cap Range(sessions[r].bucketsFailed) = {}
        /\ (run[r].pc \in SavePositions \cup {"await_fetch"}) =>
              Len(run[r].bucketsCompleted) + Len(run[r].bucketsFailed) = run[r].bucket - 1

\* a session over three buckets finalized as partial, with the second
\* bucket failed and the others completed
C35_Witness ==
    \E r \in Runs :
        /\ Finalized(sessions[r])
        /\ Len(sessions[r].bucketsRequested) = 3
        /\ sessions[r].bucketsFailed = <<sessions[r].bucketsRequested[2]>>
        /\ sessions[r].bucketsCompleted
              = <<sessions[r].bucketsRequested[1], sessions[r].bucketsRequested[3]>>

-----------------------------------------------------------------------------
(* The orchestrator with the searchJobs of the service: one run             *)

\* the database operations that may reject in a run of the closed system
MaxClosedDbFaults == 1

\* the bodies of the closed system: one bucket, the filter on and the
\* country left to its default
ClosedRequests ==
    [buckets : {<<TEXT_QA>>}, filterIndianJobs : {TRUE},
     country : {Undefined}, location : {Undefined}]

\* the raw jobs the API serves in a run of the closed system
MaxClosedApiJobs == 1

\* the request attempts that fail in a run of the closed system: enough to
\* exhaust the retries of one page
MaxClosedApiFaults == maxRetries + 1

TriggerClosed == TriggerOf(1, ClosedRequests)

InitClosed ==
    /\ InitOrch
    /\ probe = NoProbe
    /\ dbFaultsLeft = MaxClosedDbFaults
    /\ apiKey \in BOOLEAN
    /\ catalog \in Catalogs
    /\ apiJobsLeft = MaxClosedApiJobs
    /\ apiFaultsLeft = MaxClosedApiFaults
    /\ fparams = [r \in Runs |-> Undefined]
    /\ fpc = [r \in Runs |-> "idle"]
    /\ page = [r \in Runs |-> 0]
    /\ retryCount = [r \in Runs |-> 0]
    /\ jobs = [r \in Runs |-> <<>>]
    /\ result = [r \in Runs |-> <<>>]
    /\ fallback = [r \in Runs |-> NoDraw]
    /\ retSite = [r \in Runs |-> "none"]
    /\ reqLog = [r \in Runs |-> <<>>]
    /\ pagesSeen = [r \in Runs |-> <<>>]
    /\ lastAnswer = [r \in Runs |-> NoAnswer]

NextClosed ==
    \/ TriggerClosed
    \/ SessionCreated(1)
    \/ StartAudited(1)
    \/ BackgroundBegins(1)
    \/ FetchSettled(1)
    \/ CompanyFound(1)
    \/ CompanyCreated(1)
    \/ JobFound(1)
    \/ JobWritten(1)
    \/ FinalUpdated(1)
    \/ CompletionAudited(1)
    \/ VerifyStep(1)
    \/ CatchUpdated(1)
    \/ CatchAudited(1)
    \/ SearchJobsBegin(1)
    \/ SendRequest(1)
    \/ ResponseArrives(1)
    \/ BackoffElapses(1)
    \/ PageDelayElapses(1)

SpecClosed == InitClosed /\ [][NextClosed]_vars


C37_ApiCallsCountBuckets ==
    [][\A r \in Runs :
        /\ RequestIssued(r) => run'[r].totalApiCalls = run[r].totalApiCalls
        /\ CallIssued(r) => run'[r].totalApiCalls = run[r].totalApiCalls + 1
        /\ run'[r].totalApiCalls # run[r].totalApiCalls => CallIssued(r)
        /\ Finalized(sessions'[r]) =>
              /\ sessions'[r].totalApiCalls = Len(sessions'[r].bucketsRequested)
              /\ sessions'[r].totalApiCalls
                    = Len(sessions'[r].bucketsCompleted) + Len(sessions'[r].bucketsFailed)
    ]_vars

\* a finalized session with totalApiCalls = 1 whose run has sent
\* maxRetries + 2 requests, over two pages
C37_Witness ==
    \E r \in Runs :
        /\ Finalized(sessions[r])
        /\ sessions[r].totalApiCalls = 1
        /\ Len(reqLog[r]) = maxRetries + 2
        /\ reqLog[r][Len(reqLog[r])].page = 2

====
